---- MODULE Spec2Model ----
(***************************************************************************)
(* neat-fs: a write-back shadow tree (FileCache / CachedFile) over a       *)
(* backend (RAMBackend), driven through the NeatFS facade.                 *)
(*                                                                         *)
(* A path is the sequence of its filenames: "/" is <<>>, "/a/c" is         *)
(* <<"a","c">>.  The facade resolves every path to an absolute normalised  *)
(* path before it reaches the cache, so Path.split minus its leading "/"   *)
(* is the sequence itself.                                                 *)
(***************************************************************************)
EXTENDS Integers, Sequences, FiniteSets, TLC

VARIABLES
  backend,     \* RAMBackend: path -> Node
  cache,       \* FileCache.root and the CachedFile tree below it: path -> CachedFile
  locked,      \* FileCache.mutex is held
  pc,          \* "idle", "resolveSymlink" while a call sits in the loop of resolveSymlink,
               \* "settled" while the outcome of a call is on its way to the caller
  pending,     \* the call that waits for resolveSymlink
  linkStack,   \* resolveSymlink: linkStack
  hops,        \* resolveSymlink: iterations of the loop so far
  lastCall,    \* the last call issued
  lastResult,  \* its outcome
  lastCommit,  \* what the last commit built and whether it reached backend.bulk
  ref,         \* a plain in-memory file tree that receives the same calls
  refResult,   \* the outcome of the last call on the plain tree
  written,     \* the last writeFile that succeeded, while nothing has changed that file since
  opCount,     \* number of calls issued, commits not counted
  \* the scheduling layer: NeatFS.wrap, its timer, and the promise chain of FileCache
  promiseChain,            \* FileCache.promiseChain: the tasks enqueued and not finished, each with the
                           \* place in its body it has come to
  calls,                   \* the facade calls in flight: what each one awaits
  operationStack,          \* NeatFS.operationStack
  commitTimeout,           \* NeatFS.commitTimeout: the handle of a timer, 0 for undefined
  timers,                  \* the timers setTimeout has set that have neither fired nor been cleared
  sinceCommit,             \* Date.now() - NeatFS._lastCacheCommit, as far as alwaysCommitCacheAfter can tell
  alwaysCommitCacheAfter,  \* NeatFS.alwaysCommitCacheAfter
  cacheCommitDelay,        \* NeatFS.cacheCommitDelay
  nextId,                  \* the next handle: tasks are numbered as they are enqueued, timers as they are set
  stale,                   \* the last mutex.lock() of the running task reported stale
  notified,                \* the listeners that got onPossibleUnknownChanges from the running task, in order
  quiet                    \* since operationStack last returned to zero: what has become of the interval

fsVars == <<pc, pending, linkStack, hops, lastCall, lastResult, ref, refResult>>

schedVars == <<promiseChain, calls, operationStack, commitTimeout, timers, sinceCommit,
               alwaysCommitCacheAfter, cacheCommitDelay, nextId, stale, notified, quiet>>

vars == <<backend, cache, locked, lastCommit, opCount, written, fsVars, schedVars>>

(***************************************************************************)
(* Bounds and input sets                                                   *)
(***************************************************************************)
MaxOps == 3

\* facade calls issued in a run of the scheduling layer
MaxCalls == 2

Root == <<>>
Paths == {<<>>, <<"a">>, <<"b">>, <<"a", "c">>}
Bytes == {"", "y"}
Destinations == {"", "/b", "/a"}
Clock == {1}

Undefined == "undefined"

\* the path a destination string names
PathOfString(d) ==
  CASE d = "/a" -> <<"a">>
    [] d = "/b" -> <<"b">>
    [] OTHER -> <<>>

(***************************************************************************)
(* Path                                                                    *)
(***************************************************************************)
join(filePath, filename) == Append(filePath, filename)

dirname(filePath) == IF filePath = <<>> THEN <<>> ELSE SubSeq(filePath, 1, Len(filePath) - 1)

basename(filePath) == IF filePath = <<>> THEN "" ELSE filePath[Len(filePath)]

IsPrefix(p, q) == Len(p) <= Len(q) /\ SubSeq(q, 1, Len(p)) = p

IsProperPrefix(p, q) == Len(p) < Len(q) /\ SubSeq(q, 1, Len(p)) = p

Range(s) == {s[i] : i \in 1..Len(s)}

(***************************************************************************)
(* FSError                                                                 *)
(***************************************************************************)
NoError == [code |-> "", filePath |-> <<>>]

FSError(code, filePath) == [code |-> code, filePath |-> filePath]

(***************************************************************************)
(* RAMBackend                                                              *)
(***************************************************************************)
NoBackendNode == [fileType |-> "NONE", data |-> Undefined, children |-> <<>>, mtime |-> 0, destination |-> Undefined]

Node(fileType, mtime, destination) ==
  [fileType |-> fileType, data |-> Undefined, children |-> <<>>, mtime |-> mtime, destination |-> destination]

\* RAMBackend.getFile: the error of the walk to filePath, NoError when it arrives
RECURSIVE RAMBackend_walk(_, _, _)
RAMBackend_walk(b, current, rest) ==
  IF rest = <<>> THEN NoError
  ELSE LET filename == Head(rest)
           newNode == join(current, filename)
       IN IF ~(newNode \in Paths /\ filename \in Range(b[current].children))
            THEN FSError("ENOENT", newNode)
          ELSE IF Len(rest) > 1 /\ b[newNode].fileType # "DIRECTORY"
            THEN FSError("ENOTDIR", newNode)
          ELSE IF Len(rest) > 1 THEN RAMBackend_walk(b, newNode, Tail(rest))
          ELSE NoError

RAMBackend_getFile(b, filePath) == RAMBackend_walk(b, <<>>, filePath)

\* Node.deleteFile: the node and everything below it leave the tree
Node_deleteFile(b, parent, filename) ==
  IF b[parent].fileType # "DIRECTORY" THEN [err |-> FSError("ENOTDIR", parent), backend |-> b]
  ELSE [err |-> NoError,
        backend |-> [q \in Paths |->
          IF q = parent THEN [b[q] EXCEPT !.children = SelectSeq(b[q].children, LAMBDA el : el # filename)]
          ELSE IF IsPrefix(join(parent, filename), q) THEN NoBackendNode
          ELSE b[q]]]

Node_mkDir(b, parent, filename, mtime) ==
  IF b[parent].fileType # "DIRECTORY" THEN [err |-> FSError("ENOTDIR", parent), backend |-> b]
  ELSE IF filename \in Range(b[parent].children) THEN [err |-> FSError("EEXIST", parent), backend |-> b]
  ELSE [err |-> NoError,
        backend |-> [b EXCEPT ![parent].children = Append(@, filename),
                              ![join(parent, filename)] = Node("DIRECTORY", mtime, Undefined)]]

Node_writeFile(b, parent, filename, data, mtime) ==
  IF b[parent].fileType # "DIRECTORY" THEN [err |-> FSError("ENOTDIR", parent), backend |-> b]
  ELSE IF filename \notin Range(b[parent].children)
    THEN [err |-> NoError,
          backend |-> [b EXCEPT ![parent].children = Append(@, filename),
                                ![join(parent, filename)] = [Node("FILE", mtime, Undefined) EXCEPT !.data = data]]]
  ELSE IF b[join(parent, filename)].fileType # "FILE" THEN [err |-> FSError("ENOTFILE", parent), backend |-> b]
  ELSE [err |-> NoError, backend |-> [b EXCEPT ![join(parent, filename)].data = data]]

Node_mkLnk(b, parent, filename, destination, mtime) ==
  IF b[parent].fileType # "DIRECTORY" THEN [err |-> FSError("ENOTDIR", parent), backend |-> b]
  ELSE IF filename \in Range(b[parent].children) THEN [err |-> FSError("EEXIST", parent), backend |-> b]
  ELSE [err |-> NoError,
        backend |-> [b EXCEPT ![parent].children = Append(@, filename),
                              ![join(parent, filename)] = Node("SYMLINK", mtime, destination)]]

\* Node.readFile
Node_readFile(b, filePath) ==
  IF b[filePath].fileType # "FILE" THEN [err |-> FSError("ENOTFILE", filePath), data |-> Undefined]
  ELSE [err |-> NoError, data |-> IF b[filePath].data = Undefined THEN "" ELSE b[filePath].data]

RAMBackend_readFile(b, filePath) ==
  LET Found(err) == IF err # NoError THEN [err |-> err, data |-> Undefined] ELSE Node_readFile(b, filePath)
  IN Found(RAMBackend_getFile(b, filePath))

\* Node.readDir: filename, fileType and meta of each child; the destination is not part of the entry
Node_readDir(b, filePath) ==
  [i \in 1..Len(b[filePath].children) |->
     LET el == join(filePath, b[filePath].children[i])
     IN [filename |-> b[filePath].children[i], fileType |-> b[el].fileType, mtime |-> b[el].mtime, destination |-> Undefined]]

RAMBackend_readDir(b, filePath) ==
  LET Found(err) ==
        IF err # NoError THEN [err |-> err, entries |-> <<>>]
        ELSE IF b[filePath].fileType # "DIRECTORY" THEN [err |-> FSError("ENOTDIR", filePath), entries |-> <<>>]
        ELSE [err |-> NoError, entries |-> Node_readDir(b, filePath)]
  IN Found(RAMBackend_getFile(b, filePath))

\* `this.getFile(Path.dirname(el))`, then r, the method of the parent node
BulkParent(b, filePath, r) ==
  LET Found(err) == IF err # NoError THEN [err |-> err, backend |-> b] ELSE r
  IN Found(RAMBackend_getFile(b, dirname(filePath)))

\* the body of one of the five loops of RAMBackend.bulk
BulkStep(b, loop, el) ==
  CASE loop = "filesToDelete" ->
         BulkParent(b, el, Node_deleteFile(b, dirname(el), basename(el)))
    [] loop = "foldersToCreate" ->
         BulkParent(b, el.filePath, Node_mkDir(b, dirname(el.filePath), basename(el.filePath), el.mtime))
    [] loop = "filesToWrite" ->
         BulkParent(b, el.filePath, Node_writeFile(b, dirname(el.filePath), basename(el.filePath), el.data, el.mtime))
    [] loop = "linksToCreate" ->
         BulkParent(b, el.filePath, Node_mkLnk(b, dirname(el.filePath), basename(el.filePath), el.destination, el.mtime))
    [] loop = "metaUpdates" ->
         LET Found(err) ==
               IF err # NoError THEN [err |-> err, backend |-> b]
               ELSE [err |-> NoError, backend |-> [b EXCEPT ![el.filePath].mtime = el.mtime]]
         IN Found(RAMBackend_getFile(b, el.filePath))

\* one loop of RAMBackend.bulk: the elements in order, stopping at the first error
RECURSIVE BulkLoop(_, _, _)
BulkLoop(b, loop, list) ==
  IF list = <<>> THEN [err |-> NoError, backend |-> b]
  ELSE LET Rest(r) == IF r.err # NoError THEN r ELSE BulkLoop(r.backend, loop, Tail(list))
       IN Rest(BulkStep(b, loop, Head(list)))

RAMBackend_bulk(b, p) ==
  LET Then(r, loop, list) == IF r.err # NoError THEN r ELSE BulkLoop(r.backend, loop, list)
  IN Then(Then(Then(Then(BulkLoop(b, "filesToDelete", p.filesToDelete),
                         "foldersToCreate", p.foldersToCreate),
                    "filesToWrite", p.filesToWrite),
               "linksToCreate", p.symlinksToCreate),
          "metaUpdates", p.metaUpdates)

(***************************************************************************)
(* CachedFile                                                              *)
(***************************************************************************)
\* a path no CachedFile object stands for
NoCachedFile ==
  [live |-> FALSE, oldType |-> "NONEXISTENT", newFileType |-> "NONEXISTENT", data |-> Undefined,
   hasChildren |-> FALSE, children |-> <<>>, mtime |-> 0, metaDirty |-> FALSE, destination |-> Undefined,
   readDirs |-> 0, readFiles |-> 0]

\* the constructor; children (a list of filenames) is undefined while hasChildren is FALSE.
\* readDirs and readFiles are not fields of the class: they count the calls of backend.readDir
\* and backend.readFile for the path since the cache was last dropped
CachedFile(oldType, mtime, destination) ==
  [live |-> TRUE, oldType |-> oldType, newFileType |-> oldType, data |-> Undefined,
   hasChildren |-> FALSE, children |-> <<>>, mtime |-> mtime, metaDirty |-> FALSE, destination |-> destination,
   readDirs |-> 0, readFiles |-> 0]

\* the object node takes the place of the one at filePath: the counts of the path go on
Replace(c, filePath, node) == [node EXCEPT !.readDirs = c[filePath].readDirs, !.readFiles = c[filePath].readFiles]

exists(file) == file.newFileType # "NONEXISTENT"

isDir(file) == file.newFileType = "DIRECTORY" \/ file.newFileType = "DIRECTORY_NEW"

isFile(file) == file.newFileType = "FILE" \/ file.newFileType = "FILE_DIRTY"

isSymlink(file) == file.newFileType = "SYMLINK" \/ file.newFileType = "SYMLINK_DIRTY"

toBasicFileType(fileType) ==
  CASE fileType \in {"FILE", "FILE_DIRTY"} -> "FILE"
    [] fileType \in {"DIRECTORY", "DIRECTORY_NEW"} -> "DIRECTORY"
    [] fileType \in {"SYMLINK", "SYMLINK_DIRTY"} -> "SYMLINK"
    [] OTHER -> Undefined

fromBasicFileType(fileType) == fileType

\* `this.children = undefined`: the CachedFile objects below filePath are no longer reachable
DropChildren(c, filePath) ==
  [q \in Paths |->
     IF q = filePath THEN [c[q] EXCEPT !.hasChildren = FALSE, !.children = <<>>]
     ELSE IF IsProperPrefix(filePath, q) THEN Replace(c, q, NoCachedFile)
     ELSE c[q]]

\* `set mtime`: stores the time and marks the meta dirty
SetMtime(c, filePath, mtime) == [c EXCEPT ![filePath].mtime = mtime, ![filePath].metaDirty = TRUE]

\* `_meta.mtime = ...`: stores the time only
AssignMetaMtime(c, filePath, mtime) == [c EXCEPT ![filePath].mtime = mtime]

hasParent(filePath) == filePath # <<>>

CachedFile_mkLnk(c, filePath, destination, now) ==
  IF exists(c[filePath]) THEN [err |-> FSError("EEXIST", filePath), cache |-> c]
  ELSE LET c1 == SetMtime(c, filePath, now)
           c2 == IF hasParent(filePath) THEN SetMtime(c1, dirname(filePath), now) ELSE c1
           c3 == DropChildren(c2, filePath)
       IN [err |-> NoError,
           cache |-> [c3 EXCEPT ![filePath].newFileType = "SYMLINK_DIRTY",
                                ![filePath].destination = destination,
                                ![filePath].data = Undefined]]

CachedFile_writeFile(c, filePath, data, now) ==
  IF exists(c[filePath]) /\ ~isFile(c[filePath]) THEN [err |-> FSError("ENOTFILE", filePath), cache |-> c]
  ELSE LET c1 == SetMtime(c, filePath, now)
       IN IF ~exists(c[filePath]) /\ ~hasParent(filePath)
            THEN [err |-> FSError("TypeError", filePath), cache |-> c1]
          ELSE LET c2 == IF ~exists(c[filePath]) THEN AssignMetaMtime(c1, dirname(filePath), now) ELSE c1
                   c3 == DropChildren(c2, filePath)
               IN [err |-> NoError,
                   cache |-> [c3 EXCEPT ![filePath].newFileType = "FILE_DIRTY",
                                        ![filePath].data = data,
                                        ![filePath].destination = Undefined]]

\* a mkDir that leaves the children of the new directory to be loaded from the backend
CachedFile_mkDir_lazy(c, filePath, now) ==
  IF exists(c[filePath]) THEN [err |-> FSError("EEXIST", filePath), cache |-> c]
  ELSE LET c1 == SetMtime(c, filePath, now)
           c2 == IF hasParent(filePath) THEN AssignMetaMtime(c1, dirname(filePath), now) ELSE c1
           c3 == DropChildren(c2, filePath)
       IN [err |-> NoError,
           cache |-> [c3 EXCEPT ![filePath].newFileType = "DIRECTORY_NEW",
                                ![filePath].hasChildren = FALSE,
                                ![filePath].children = <<>>,
                                ![filePath].data = Undefined,
                                ![filePath].destination = Undefined]]

CachedFile_mkDir(c, filePath, now) ==
  IF exists(c[filePath]) THEN [err |-> FSError("EEXIST", filePath), cache |-> c]
  ELSE LET c1 == SetMtime(c, filePath, now)
           c2 == IF hasParent(filePath) THEN AssignMetaMtime(c1, dirname(filePath), now) ELSE c1
           c3 == DropChildren(c2, filePath)
       IN [err |-> NoError,
           cache |-> [c3 EXCEPT ![filePath].newFileType = "DIRECTORY_NEW",
                                ![filePath].hasChildren = TRUE,
                                ![filePath].children = <<>>,
                                ![filePath].data = Undefined,
                                ![filePath].destination = Undefined]]

\* a deleteFile that keeps the data of the file
CachedFile_deleteFile_keepsData(c, filePath, now) ==
  IF ~exists(c[filePath]) THEN [err |-> FSError("ENOENT", filePath), cache |-> c]
  ELSE LET c2 == IF hasParent(filePath) THEN AssignMetaMtime(c, dirname(filePath), now) ELSE c
           c3 == DropChildren(c2, filePath)
       IN [err |-> NoError,
           cache |-> [c3 EXCEPT ![filePath].newFileType = "NONEXISTENT",
                                ![filePath].destination = Undefined]]

CachedFile_deleteFile(c, filePath, now) ==
  IF ~exists(c[filePath]) THEN [err |-> FSError("ENOENT", filePath), cache |-> c]
  ELSE LET c2 == IF hasParent(filePath) THEN AssignMetaMtime(c, dirname(filePath), now) ELSE c
           c3 == DropChildren(c2, filePath)
       IN [err |-> NoError,
           cache |-> [c3 EXCEPT ![filePath].newFileType = "NONEXISTENT",
                                ![filePath].data = Undefined,
                                ![filePath].destination = Undefined]]

\* a test that takes the empty byte string for no data
NoData_emptyIsNone(data) == data = Undefined \/ data = ""

\* `!this.data`: a Uint8Array, the empty one included, is truthy
NoData(data) == data = Undefined

CachedFile_readFile(b, c, filePath) ==
  IF ~exists(c[filePath]) THEN [err |-> FSError("ENOENT", filePath), cache |-> c, data |-> Undefined, fetched |-> FALSE]
  ELSE IF ~isFile(c[filePath]) THEN [err |-> FSError("ENOTFILE", filePath), cache |-> c, data |-> Undefined, fetched |-> FALSE]
  ELSE IF NoData(c[filePath].data)
    THEN LET Fetched(r) ==
               IF r.err # NoError
                 THEN [err |-> r.err, cache |-> [c EXCEPT ![filePath].readFiles = @ + 1], data |-> Undefined, fetched |-> TRUE]
               ELSE [err |-> NoError, cache |-> [c EXCEPT ![filePath].data = r.data, ![filePath].readFiles = @ + 1],
                     data |-> r.data, fetched |-> TRUE]
         IN Fetched(RAMBackend_readFile(b, filePath))
  ELSE [err |-> NoError, cache |-> c, data |-> c[filePath].data, fetched |-> FALSE]

\* getChildren: only the already cached files
CachedFile_getChildren(c, filePath) ==
  IF ~exists(c[filePath]) THEN [err |-> FSError("ENOENT", filePath), children |-> <<>>]
  ELSE IF ~isDir(c[filePath]) THEN [err |-> FSError("ENOTDIR", filePath), children |-> <<>>]
  ELSE [err |-> NoError, children |-> IF c[filePath].hasChildren THEN c[filePath].children ELSE <<>>]

\* the loop of retrieveChildren: one CachedFile per entry of backend.readDir
LoadEntries(c, filePath, entries) ==
  [q \in Paths |->
     IF q = filePath
       THEN [c[q] EXCEPT !.hasChildren = TRUE, !.children = [i \in 1..Len(entries) |-> entries[i].filename],
                         !.readDirs = @ + 1]
     ELSE IF \E i \in 1..Len(entries) : q = join(filePath, entries[i].filename)
       THEN LET entry == entries[CHOOSE i \in 1..Len(entries) : q = join(filePath, entries[i].filename)]
            IN Replace(c, q, CachedFile(fromBasicFileType(entry.fileType), entry.mtime, entry.destination))
     ELSE c[q]]

CachedFile_retrieveChildren(b, c, filePath) ==
  IF ~exists(c[filePath]) THEN [err |-> FSError("ENOENT", filePath), cache |-> c]
  ELSE IF ~isDir(c[filePath]) THEN [err |-> FSError("ENOTDIR", filePath), cache |-> c]
  ELSE IF ~c[filePath].hasChildren
    THEN LET Loaded(ret) ==
               IF ret.err # NoError THEN [err |-> ret.err, cache |-> [c EXCEPT ![filePath].readDirs = @ + 1]]
               ELSE [err |-> NoError, cache |-> LoadEntries(c, filePath, ret.entries)]
         IN Loaded(RAMBackend_readDir(b, filePath))
  ELSE [err |-> NoError, cache |-> c]

\* a retrieveChild that does not look for the child and appends a placeholder every time
CachedFile_retrieveChild_noFind(b, c, filePath, filename) ==
  LET node == join(filePath, filename)
      Find(r) ==
        IF r.err # NoError THEN [err |-> r.err, cache |-> r.cache, node |-> node]
        ELSE [err |-> NoError,
              cache |-> [r.cache EXCEPT ![filePath].children = Append(@, filename),
                                        ![node] = Replace(r.cache, node, CachedFile("NONEXISTENT", 0, Undefined))],
              node |-> node]
  IN Find(CachedFile_retrieveChildren(b, c, filePath))

\* retrieveChild: the child, or a new NONEXISTENT placeholder appended to the children
CachedFile_retrieveChild(b, c, filePath, filename) ==
  LET node == join(filePath, filename)
      Find(r) ==
        IF r.err # NoError THEN [err |-> r.err, cache |-> r.cache, node |-> node]
        ELSE IF filename \in Range(r.cache[filePath].children) THEN [err |-> NoError, cache |-> r.cache, node |-> node]
        ELSE [err |-> NoError,
              cache |-> [r.cache EXCEPT ![filePath].children = Append(@, filename),
                                        ![node] = Replace(r.cache, node, CachedFile("NONEXISTENT", 0, Undefined))],
              node |-> node]
  IN Find(CachedFile_retrieveChildren(b, c, filePath))

\* asFileEntry; fileType is Undefined for a file that does not exist
asFileEntry(c, filePath) ==
  [filePath |-> filePath, fileType |-> toBasicFileType(c[filePath].newFileType), filename |-> basename(filePath),
   destination |-> c[filePath].destination, mtime |-> c[filePath].mtime]

NoEntry == [filePath |-> <<>>, fileType |-> Undefined, filename |-> "", destination |-> Undefined, mtime |-> 0]

\* retrieveRoot
CachedFile_retrieveRoot(b, c) == [c EXCEPT ![<<>>] = CachedFile("DIRECTORY", b[<<>>].mtime, Undefined)]

(***************************************************************************)
(* FileCache                                                               *)
(***************************************************************************)
MaxSymlinkChain == 64

\* the loop of getFile and the lookup of the last filename
RECURSIVE FileCache_walk(_, _, _, _)
FileCache_walk(b, c, currentNode, splitPath) ==
  IF splitPath = <<>> THEN [err |-> NoError, cache |-> c, node |-> currentNode]
  ELSE LET filename == Head(splitPath)
           Descend(r) ==
             IF r.err # NoError THEN r
             ELSE IF Len(splitPath) = 1 THEN r
             ELSE IF ~exists(r.cache[r.node])
               THEN [err |-> FSError("ENOENT", join(r.node, filename)), cache |-> r.cache, node |-> r.node]
             ELSE IF ~isDir(r.cache[r.node])
               THEN [err |-> FSError("ENOTDIR", join(r.node, filename)), cache |-> r.cache, node |-> r.node]
             ELSE FileCache_walk(b, r.cache, r.node, Tail(splitPath))
       IN Descend(CachedFile_retrieveChild(b, c, currentNode, filename))

FileCache_getFile(b, c, filePath) ==
  LET c1 == IF ~c[<<>>].live THEN CachedFile_retrieveRoot(b, c) ELSE c
  IN FileCache_walk(b, c1, <<>>, filePath)

\* resolveSymlink up to the end of the first iteration of its loop; spin: the file went back
\* onto linkStack and the loop goes on
FileCache_resolveSymlink(b, c, filePath) ==
  LET Shift(g) ==
        IF g.err # NoError THEN [err |-> g.err, cache |-> g.cache, node |-> g.node, spin |-> FALSE]
        ELSE IF g.cache[g.node].newFileType # "SYMLINK"
          THEN [err |-> NoError, cache |-> g.cache, node |-> g.node, spin |-> FALSE]
        ELSE [err |-> NoError, cache |-> g.cache, node |-> g.node, spin |-> TRUE]
  IN Shift(FileCache_getFile(b, c, filePath))

EmptyPayload ==
  [filesToDelete |-> <<>>, foldersToCreate |-> <<>>, filesToWrite |-> <<>>, symlinksToCreate |-> <<>>, metaUpdates |-> <<>>]

\* a deletion pushed whatever the old type is
PushDelete_always(f, file, filesToDelete) == Append(filesToDelete, file)

\* `if (file.oldType !== NONEXISTENT) filesToDelete.push(file.filePath)`
PushDelete(f, file, filesToDelete) ==
  IF f.oldType # "NONEXISTENT" THEN Append(filesToDelete, file) ELSE filesToDelete

\* a deletion pushed for an overwritten file as well
PushDeleteOfDirty_alsoFile(f, file, filesToDelete) ==
  IF f.oldType # "NONEXISTENT" THEN Append(filesToDelete, file) ELSE filesToDelete

\* the same for FILE_DIRTY, where a FILE that is overwritten is not deleted first
PushDeleteOfDirty(f, file, filesToDelete) ==
  IF f.oldType # "NONEXISTENT" /\ f.oldType # "FILE" THEN Append(filesToDelete, file) ELSE filesToDelete

\* a folder put in front of the list
PushFolder_unshift(f, file, foldersToCreate) ==
  <<[filePath |-> file, mtime |-> f.mtime]>> \o foldersToCreate

\* `foldersToCreate.push({ filePath, meta })`
PushFolder(f, file, foldersToCreate) ==
  Append(foldersToCreate, [filePath |-> file, mtime |-> f.mtime])

\* the switch of commit for one file of a folder
CommitFile(b, c, file, st) ==
  LET f == c[file]
      t == f.newFileType
      del == PushDelete(f, file, st.payload.filesToDelete)
      meta == IF f.metaDirty THEN Append(st.payload.metaUpdates, [filePath |-> file, mtime |-> f.mtime])
              ELSE st.payload.metaUpdates
  IN CASE t = "NONEXISTENT" ->
            [st EXCEPT !.payload.filesToDelete = del]
       [] t = "DIRECTORY_NEW" ->
            [st EXCEPT !.payload.filesToDelete = del,
                       !.payload.foldersToCreate = PushFolder(f, file, @),
                       !.folderStack = Append(@, file)]
       [] t = "FILE_DIRTY" ->
            LET Write(r) ==
                  IF r.err # NoError THEN [st EXCEPT !.err = r.err]
                  ELSE [st EXCEPT !.payload.filesToDelete = PushDeleteOfDirty(f, file, @),
                                  !.payload.filesToWrite = Append(@, [filePath |-> file, data |-> r.data, mtime |-> f.mtime])]
            IN Write(CachedFile_readFile(b, c, file))
       [] t = "SYMLINK_DIRTY" ->
            [st EXCEPT !.payload.filesToDelete = del,
                       !.payload.symlinksToCreate =
                          Append(@, [filePath |-> file,
                                     destination |-> IF f.destination = Undefined THEN "" ELSE f.destination,
                                     mtime |-> f.mtime])]
       [] t = "DIRECTORY" ->
            [st EXCEPT !.folderStack = Append(@, file), !.payload.metaUpdates = meta]
       [] OTHER ->
            [st EXCEPT !.payload.metaUpdates = meta]

RECURSIVE CommitFolder(_, _, _, _)
CommitFolder(b, c, files, st) ==
  IF files = <<>> \/ st.err # NoError THEN st
  ELSE CommitFolder(b, c, Tail(files), CommitFile(b, c, Head(files), st))

\* the while loop of commit over folderStack
RECURSIVE CommitWalk(_, _, _)
CommitWalk(b, c, st) ==
  IF st.folderStack = <<>> \/ st.err # NoError THEN st
  ELSE LET folder == Head(st.folderStack)
           g == CachedFile_getChildren(c, folder)
       IN IF g.err # NoError THEN [st EXCEPT !.err = g.err]
          ELSE CommitWalk(b, c, CommitFolder(b, c, [i \in 1..Len(g.children) |-> join(folder, g.children[i])],
                                             [st EXCEPT !.folderStack = Tail(@)]))

\* the five lists commit builds from the shadow tree c
BuildPayload(b, c) == CommitWalk(b, c, [payload |-> EmptyPayload, folderStack |-> << <<>> >>, err |-> NoError])

\* the guard in front of backend.bulk
BulkGuard(p) == p.filesToDelete # <<>> \/ p.foldersToCreate # <<>> \/ p.filesToWrite # <<>>

\* feedTheGC fails on a root that is no directory, and then commit does not clear this.root
FeedTheGC(c) ==
  IF ~exists(c[<<>>]) THEN FSError("ENOENT", <<>>)
  ELSE IF ~isDir(c[<<>>]) THEN FSError("ENOTDIR", <<>>)
  ELSE NoError

\* what a commit found (tree, the shadow tree; stored, the backend), the lists it built
\* (built: the walk came to its end) and the argument of each backend.bulk call it made
NoCommit ==
  [ran |-> FALSE, payload |-> EmptyPayload, built |-> FALSE, bulk |-> <<>>,
   tree |-> [q \in Paths |-> NoCachedFile], stored |-> [q \in Paths |-> NoBackendNode]]

\* the body of commit for a materialised root: the walk, bulk, and the finally block
FileCache_commit(b, c) ==
  LET gc == FeedTheGC(c)
      Finally(w, callBulk, r) ==
        [err |-> IF gc # NoError THEN gc ELSE r.err,
         backend |-> r.backend,
         cache |-> IF gc # NoError THEN c ELSE [q \in Paths |-> NoCachedFile],
         commit |-> [ran |-> TRUE, payload |-> w.payload, built |-> w.err = NoError,
                     bulk |-> IF callBulk THEN <<w.payload>> ELSE <<>>,
                     tree |-> c, stored |-> b]]
      Bulk(w, callBulk) ==
        Finally(w, callBulk, IF callBulk THEN RAMBackend_bulk(b, w.payload) ELSE [err |-> w.err, backend |-> b])
      Guard(w) == Bulk(w, w.err = NoError /\ BulkGuard(w.payload))
  IN Guard(BuildPayload(b, c))

(***************************************************************************)
(* Calls and their outcomes                                                *)
(***************************************************************************)
NoCall == [op |-> "none", filePath |-> <<>>, data |-> Undefined, destination |-> Undefined,
           recursive |-> FALSE, folder |-> FALSE, now |-> 0]

Call(op, filePath, now) == [NoCall EXCEPT !.op = op, !.filePath = filePath, !.now = now]

\* status: "ok" (resolved), "error" (rejected with err), "pending" (not settled)
\* fetched: the call read the file from the backend
\* fired: the callbacks of FSCallback the call has invoked, in order
Resolved == [status |-> "ok", err |-> NoError, data |-> Undefined, names |-> <<>>, entry |-> NoEntry, fetched |-> FALSE,
             fired |-> <<>>]

\* one invocation of a callback of FSCallback
Fired(callback, filePath, fileType) == [callback |-> callback, filePath |-> filePath, fileType |-> fileType]

\* the outcome r of a later step of a call that has fired the callbacks in fired before it
FiredBefore(fired, r) == [r EXCEPT !.result.fired = fired \o @]

Rejected(err) == [Resolved EXCEPT !.status = "error", !.err = err]

Unsettled == [Resolved EXCEPT !.status = "pending"]

\* FileCache.mkDir
FileCache_mkDir(b, c, filePath, now) ==
  LET Done(m, cachedFile) ==
        IF m.err # NoError THEN [cache |-> m.cache, result |-> Rejected(m.err)]
        ELSE [cache |-> m.cache,
              result |-> [Resolved EXCEPT !.fired = <<Fired("onFileCreated", cachedFile, "DIRECTORY")>>]]
      Got(g) ==
        IF g.err # NoError THEN [cache |-> g.cache, result |-> Rejected(g.err)]
        ELSE Done(CachedFile_mkDir(g.cache, g.node, now), g.node)
  IN Got(FileCache_getFile(b, c, filePath))

\* FileCache.mkLnk
FileCache_mkLnk(b, c, filePath, destination, now) ==
  LET Done(m, cachedFile) ==
        IF m.err # NoError THEN [cache |-> m.cache, result |-> Rejected(m.err)]
        ELSE [cache |-> m.cache,
              result |-> [Resolved EXCEPT !.fired = <<Fired("onFileCreated", cachedFile, "SYMLINK")>>]]
      Got(g) ==
        IF g.err # NoError THEN [cache |-> g.cache, result |-> Rejected(g.err)]
        ELSE Done(CachedFile_mkLnk(g.cache, g.node, destination, now), g.node)
  IN Got(FileCache_getFile(b, c, filePath))

\* FileCache.deleteFile
FileCache_deleteFile(b, c, filePath, now) ==
  LET Done(m, cachedFile) ==
        IF m.err # NoError THEN [cache |-> m.cache, result |-> Rejected(m.err)]
        ELSE [cache |-> m.cache,
              result |-> [Resolved EXCEPT !.fired = <<Fired("onFileDeleted", cachedFile, Undefined)>>]]
      Got(g) ==
        IF g.err # NoError THEN [cache |-> g.cache, result |-> Rejected(g.err)]
        ELSE Done(CachedFile_deleteFile(g.cache, g.node, now), g.node)
  IN Got(FileCache_getFile(b, c, filePath))

\* FileCache.linfo
FileCache_linfo(b, c, filePath) ==
  LET Got(g) ==
        IF g.err # NoError THEN [cache |-> g.cache, result |-> Rejected(g.err)]
        ELSE [cache |-> g.cache,
              result |-> [Resolved EXCEPT !.entry = IF exists(g.cache[g.node]) THEN asFileEntry(g.cache, g.node) ELSE NoEntry]]
  IN Got(FileCache_getFile(b, c, filePath))

\* a readDir that lists every cached child, the removed ones and the placeholders too
FileCache_readDir_unfiltered(b, c, cachedFile, filePath) ==
  LET Names(r) ==
        IF r.err # NoError THEN [cache |-> r.cache, result |-> Rejected(r.err)]
        ELSE [cache |-> r.cache, result |-> [Resolved EXCEPT !.names = r.cache[cachedFile].children]]
  IN Names(CachedFile_retrieveChildren(b, c, cachedFile))

\* FileCache.readDir once resolveSymlink has returned cachedFile
FileCache_readDir(b, c, cachedFile, filePath) ==
  LET Names(r) ==
        IF r.err # NoError THEN [cache |-> r.cache, result |-> Rejected(r.err)]
        ELSE [cache |-> r.cache,
              result |-> [Resolved EXCEPT !.names = SelectSeq(r.cache[cachedFile].children,
                                                              LAMBDA el : exists(r.cache[join(cachedFile, el)]))]]
  IN Names(CachedFile_retrieveChildren(b, c, cachedFile))

\* FileCache.readFile once resolveSymlink has returned cachedFile
FileCache_readFile(b, c, cachedFile) ==
  LET Read(r) ==
        IF r.err # NoError THEN [cache |-> r.cache, result |-> [Rejected(r.err) EXCEPT !.fetched = r.fetched]]
        ELSE [cache |-> r.cache, result |-> [Resolved EXCEPT !.data = r.data, !.fetched = r.fetched]]
  IN Read(CachedFile_readFile(b, c, cachedFile))

\* FileCache.writeFile once resolveSymlink has returned cachedFile: onFileCreated for a file that
\* does not exist is fired before CachedFile.writeFile is called
FileCache_writeFile(c, cachedFile, data, now) ==
  LET created == IF exists(c[cachedFile]) THEN <<>> ELSE <<Fired("onFileCreated", cachedFile, "FILE")>>
      Done(r) ==
        IF r.err # NoError THEN [cache |-> r.cache, result |-> [Rejected(r.err) EXCEPT !.fired = created]]
        ELSE [cache |-> r.cache,
              result |-> [Resolved EXCEPT !.fired = Append(created, Fired("onFileContentsChanged", cachedFile, "FILE"))]]
  IN Done(CachedFile_writeFile(c, cachedFile, data, now))

\* FileCache.info once resolveSymlink has returned cachedFile; a missing file has no entry to
\* write filePath into
FileCache_info(c, cachedFile, filePath) ==
  IF ~exists(c[cachedFile]) THEN [cache |-> c, result |-> Rejected(FSError("TypeError", filePath))]
  ELSE [cache |-> c,
        result |-> [Resolved EXCEPT !.entry = [asFileEntry(c, cachedFile) EXCEPT !.filePath = join(filePath, basename(cachedFile))]]]

\* what a call does with the file resolveSymlink returned
AfterResolve(b, c, call, cachedFile) ==
  CASE call.op = "readDir" -> FileCache_readDir(b, c, cachedFile, call.filePath)
    [] call.op = "readFile" -> FileCache_readFile(b, c, cachedFile)
    [] call.op = "writeFile" -> FileCache_writeFile(c, cachedFile, call.data, call.now)
    [] call.op = "info" -> FileCache_info(c, cachedFile, call.filePath)

\* the loop of the recursive NeatFS.mkDir: linfo of each path on the way, mkDir where it is absent
RECURSIVE NeatFS_mkDirLoop(_, _, _, _, _)
NeatFS_mkDirLoop(b, c, currentPath, pathSplit, now) ==
  IF pathSplit = <<>> THEN [cache |-> c, result |-> Resolved]
  ELSE LET path == join(currentPath, Head(pathSplit))
           Made(m) ==
             IF m.result.status = "error" THEN m
             ELSE FiredBefore(m.result.fired, NeatFS_mkDirLoop(b, m.cache, path, Tail(pathSplit), now))
           Info(info) ==
             IF info.result.status = "error" THEN info
             ELSE IF info.result.entry.fileType = Undefined
               THEN Made(FileCache_mkDir(b, info.cache, path, now))
             ELSE NeatFS_mkDirLoop(b, info.cache, path, Tail(pathSplit), now)
       IN Info(FileCache_linfo(b, c, path))

\* NeatFS.mkDir
NeatFS_mkDir(b, c, call) ==
  IF ~call.recursive THEN FileCache_mkDir(b, c, call.filePath, call.now)
  ELSE NeatFS_mkDirLoop(b, c, <<>>, call.filePath, call.now)

\* NeatFS.readLink: a destination that is missing or empty counts as no link
NeatFS_readLink(b, c, filePath) ==
  LET Info(info) ==
        IF info.result.status = "error" THEN info
        ELSE IF info.result.entry.fileType = Undefined
          THEN [cache |-> info.cache, result |-> Rejected(FSError("ENOENT", filePath))]
        ELSE IF info.result.entry.destination = Undefined \/ info.result.entry.destination = ""
          THEN [cache |-> info.cache, result |-> Rejected(FSError("ENOTLNK", filePath))]
        ELSE [cache |-> info.cache, result |-> [Resolved EXCEPT !.data = info.result.entry.destination]]
  IN Info(FileCache_linfo(b, c, filePath))

\* an rm that removes a directory whether or not folder is given
NeatFS_rm_anyFolder(b, c, call) ==
  LET Delete(c1) == FileCache_deleteFile(b, c1, call.filePath, call.now)
      Listed(dir) ==
        IF dir.result.status = "error" THEN dir
        ELSE IF dir.result.names # <<>>
          THEN [cache |-> dir.cache, result |-> Rejected(FSError("ENOTEMPTY", call.filePath))]
        ELSE Delete(dir.cache)
      List(rs) ==
        IF rs.err # NoError THEN [cache |-> rs.cache, result |-> Rejected(rs.err)]
        ELSE Listed(FileCache_readDir(b, rs.cache, rs.node, call.filePath))
      Typed(info, fileType) ==
        IF info.result.status = "error" THEN info
        ELSE IF fileType = Undefined THEN [cache |-> info.cache, result |-> Rejected(FSError("ENOENT", call.filePath))]
        ELSE IF call.folder /\ ~call.recursive /\ fileType = "DIRECTORY"
          THEN List(FileCache_resolveSymlink(b, info.cache, call.filePath))
        ELSE Delete(info.cache)
      Info(info) == Typed(info, info.result.entry.fileType)
  IN Info(FileCache_linfo(b, c, call.filePath))

\* NeatFS.rm: linfo, then readDir for a folder removed without recursive, then deleteFile
NeatFS_rm(b, c, call) ==
  LET Delete(c1) == FileCache_deleteFile(b, c1, call.filePath, call.now)
      Listed(dir) ==
        IF dir.result.status = "error" THEN dir
        ELSE IF dir.result.names # <<>>
          THEN [cache |-> dir.cache, result |-> Rejected(FSError("ENOTEMPTY", call.filePath))]
        ELSE Delete(dir.cache)
      List(rs) ==
        IF rs.err # NoError THEN [cache |-> rs.cache, result |-> Rejected(rs.err)]
        ELSE Listed(FileCache_readDir(b, rs.cache, rs.node, call.filePath))
      Typed(info, fileType) ==
        IF info.result.status = "error" THEN info
        ELSE IF fileType = Undefined THEN [cache |-> info.cache, result |-> Rejected(FSError("ENOENT", call.filePath))]
        ELSE IF call.folder
          THEN IF ~call.recursive /\ fileType = "DIRECTORY"
                 THEN List(FileCache_resolveSymlink(b, info.cache, call.filePath))
               ELSE Delete(info.cache)
        ELSE IF fileType = "FILE" \/ fileType = "SYMLINK" THEN Delete(info.cache)
        ELSE [cache |-> info.cache, result |-> Rejected(FSError("ENOTFILE", call.filePath))]
      Info(info) == Typed(info, info.result.entry.fileType)
  IN Info(FileCache_linfo(b, c, call.filePath))

(***************************************************************************)
(* The plain in-memory file tree: every call takes effect at once, commit  *)
(* does nothing.  It follows the calls while they are on paths other than  *)
(* "/" and involve no symlink; after that it is no longer valid.           *)
(***************************************************************************)
NoPlainNode == [fileType |-> "NONE", data |-> Undefined, mtime |-> 0]

InvalidPlain == [valid |-> FALSE, tree |-> [q \in Paths |-> NoPlainNode]]

PlainOf(b) ==
  IF \E q \in Paths : b[q].fileType = "SYMLINK" THEN InvalidPlain
  ELSE [valid |-> TRUE,
        tree |-> [q \in Paths |-> [fileType |-> b[q].fileType, data |-> b[q].data, mtime |-> b[q].mtime]]]

PlainOps == {"mkDir", "writeFile", "rm", "readFile", "readDir", "linfo", "commit"}

PlainOutcome == [status |-> "ok", code |-> "", data |-> Undefined, names |-> {}, fileType |-> Undefined, mtime |-> 0]

PlainError(code) == [PlainOutcome EXCEPT !.status = "error", !.code = code]

\* the first component of the way to filePath that is missing or no directory
PlainAncestorError(t, filePath) ==
  LET bad == {i \in 1..(Len(filePath) - 1) : t[SubSeq(filePath, 1, i)].fileType # "DIRECTORY"}
      first == CHOOSE i \in bad : \A j \in bad : i <= j
  IN IF bad = {} THEN ""
     ELSE IF t[SubSeq(filePath, 1, first)].fileType = "NONE" THEN "ENOENT"
     ELSE "ENOTDIR"

PlainChildren(t, filePath) == {q \in Paths : dirname(q) = filePath /\ q # filePath /\ t[q].fileType # "NONE"}

PlainTouchParent(t, filePath, now) == [t EXCEPT ![dirname(filePath)].mtime = now]

PlainStep(t, call) ==
  LET p == call.filePath
      anc == PlainAncestorError(t, p)
      ty == t[p].fileType
  IN IF call.op = "commit" THEN [tree |-> t, outcome |-> PlainOutcome]
     ELSE IF anc # "" THEN [tree |-> t, outcome |-> PlainError(anc)]
     ELSE CASE call.op = "mkDir" ->
                 IF ty # "NONE" THEN [tree |-> t, outcome |-> PlainError("EEXIST")]
                 ELSE [tree |-> PlainTouchParent([t EXCEPT ![p] = [fileType |-> "DIRECTORY", data |-> Undefined, mtime |-> call.now]],
                                                 p, call.now),
                       outcome |-> PlainOutcome]
            [] call.op = "writeFile" ->
                 IF ty \notin {"NONE", "FILE"} THEN [tree |-> t, outcome |-> PlainError("ENOTFILE")]
                 ELSE [tree |-> LET t1 == [t EXCEPT ![p] = [fileType |-> "FILE", data |-> call.data, mtime |-> call.now]]
                                IN IF ty = "NONE" THEN PlainTouchParent(t1, p, call.now) ELSE t1,
                       outcome |-> PlainOutcome]
            [] call.op = "rm" ->
                 IF ty = "NONE" THEN [tree |-> t, outcome |-> PlainError("ENOENT")]
                 ELSE IF ~call.folder /\ ty # "FILE" THEN [tree |-> t, outcome |-> PlainError("ENOTFILE")]
                 ELSE IF call.folder /\ ~call.recursive /\ ty = "DIRECTORY" /\ PlainChildren(t, p) # {}
                   THEN [tree |-> t, outcome |-> PlainError("ENOTEMPTY")]
                 ELSE [tree |-> PlainTouchParent([q \in Paths |-> IF IsPrefix(p, q) THEN NoPlainNode ELSE t[q]], p, call.now),
                       outcome |-> PlainOutcome]
            [] call.op = "readFile" ->
                 IF ty = "NONE" THEN [tree |-> t, outcome |-> PlainError("ENOENT")]
                 ELSE IF ty # "FILE" THEN [tree |-> t, outcome |-> PlainError("ENOTFILE")]
                 ELSE [tree |-> t, outcome |-> [PlainOutcome EXCEPT !.data = t[p].data]]
            [] call.op = "readDir" ->
                 IF ty = "NONE" THEN [tree |-> t, outcome |-> PlainError("ENOENT")]
                 ELSE IF ty # "DIRECTORY" THEN [tree |-> t, outcome |-> PlainError("ENOTDIR")]
                 ELSE [tree |-> t, outcome |-> [PlainOutcome EXCEPT !.names = {basename(q) : q \in PlainChildren(t, p)}]]
            [] call.op = "linfo" ->
                 IF ty = "NONE" THEN [tree |-> t, outcome |-> PlainOutcome]
                 ELSE [tree |-> t, outcome |-> [PlainOutcome EXCEPT !.fileType = ty, !.mtime = t[p].mtime]]

\* the plain tree receives call
PlainCall(call) ==
  IF ref.valid /\ call.op \in PlainOps /\ ~(call.op = "mkDir" /\ call.recursive) /\ (call.op = "commit" \/ call.filePath # <<>>)
    THEN LET Stepped(step) ==
               /\ ref' = [ref EXCEPT !.tree = step.tree]
               /\ refResult' = step.outcome
         IN Stepped(PlainStep(ref.tree, call))
  ELSE /\ ref' = InvalidPlain
       /\ refResult' = PlainOutcome

\* the outcome of a call as the caller sees it: value, absent, or error kind
Outcome(result) ==
  [status |-> result.status, code |-> result.err.code, data |-> result.data, names |-> Range(result.names),
   fileType |-> result.entry.fileType, mtime |-> result.entry.mtime]

(***************************************************************************)
(* Initial backends                                                        *)
(***************************************************************************)
EmptyBackend == [q \in Paths |-> IF q = <<>> THEN Node("DIRECTORY", 0, Undefined) ELSE NoBackendNode]

\* contents earlier commits can have left in a RAMBackend
InitialBackends ==
  { EmptyBackend,
    \* /a (a file)
    [EmptyBackend EXCEPT ![<<>>].children = <<"a">>, ![<<"a">>] = [Node("FILE", 0, Undefined) EXCEPT !.data = "x"]],
    \* /a/c (a file in a directory) and /b (a file)
    [EmptyBackend EXCEPT ![<<>>].children = <<"a", "b">>, ![<<"a">>] = [Node("DIRECTORY", 0, Undefined) EXCEPT !.children = <<"c">>],
                         ![<<"a", "c">>] = [Node("FILE", 0, Undefined) EXCEPT !.data = "x"],
                         ![<<"b">>] = [Node("FILE", 0, Undefined) EXCEPT !.data = "x"]],
    \* /a -> /b (a symlink) and /b (a file)
    [EmptyBackend EXCEPT ![<<>>].children = <<"a", "b">>, ![<<"a">>] = Node("SYMLINK", 0, "/b"),
                         ![<<"b">>] = [Node("FILE", 0, Undefined) EXCEPT !.data = "x"]] }

(***************************************************************************)
(* The state machine: one call at a time through the NeatFS facade         *)
(***************************************************************************)
NothingWritten == [valid |-> FALSE, filePath |-> <<>>, data |-> Undefined]

MutatingOps == {"mkDir", "mkLnk", "rm", "writeFile"}

\* written after call has settled with result: a writeFile that succeeded is remembered; a
\* commit, or another change of that file or of a directory above it, ends the memory
WrittenAfter(call, result) ==
  IF call.op = "writeFile" /\ result.status = "ok"
    THEN [valid |-> TRUE, filePath |-> call.filePath, data |-> call.data]
  ELSE IF call.op = "commit" THEN NothingWritten
  ELSE IF call.op \in MutatingOps /\ result.status = "ok" /\ IsPrefix(call.filePath, written.filePath)
    THEN NothingWritten
  ELSE written

\* no facade call in this slot
NoFacadeCall ==
  [op |-> "none", awaits |-> "nothing", settled |-> FALSE, absent |-> FALSE, failed |-> FALSE,
   fileType |-> Undefined, listed |-> 0]

CallIds == 1..MaxCalls

\* the scheduling layer at rest
SchedIdle ==
  /\ promiseChain = <<>>
  /\ calls = [id \in CallIds |-> NoFacadeCall]
  /\ operationStack = 0
  /\ commitTimeout = 0
  /\ timers = {}
  /\ sinceCommit = 0
  /\ nextId = 1
  /\ stale = FALSE
  /\ notified = <<>>
  /\ quiet = "never busy"

Init ==
  /\ SchedIdle
  /\ alwaysCommitCacheAfter = 5000
  /\ cacheCommitDelay = 500
  /\ backend \in InitialBackends
  /\ cache = [q \in Paths |-> NoCachedFile]
  /\ locked = FALSE
  /\ pc = "idle"
  /\ pending = NoCall
  /\ linkStack = <<>>
  /\ hops = 0
  /\ lastCall = NoCall
  /\ lastResult = Resolved
  /\ lastCommit = NoCommit
  /\ written = NothingWritten
  /\ ref = PlainOf(backend)
  /\ refResult = PlainOutcome
  /\ opCount = 0

\* a call is issued; opCount counts the calls other than commit
Issue(call) ==
  /\ pc = "idle"
  /\ IF call.op = "commit" THEN opCount' = opCount
     ELSE opCount < MaxOps /\ opCount' = opCount + 1
  /\ lastCall' = call
  /\ PlainCall(call)

\* the call settles with result r.result and leaves the shadow tree r.cache
Settle(r) ==
  /\ cache' = r.cache
  /\ written' = WrittenAfter(lastCall', r.result)
  /\ lastResult' = r.result
  /\ pc' = "settled"
  /\ pending' = NoCall
  /\ linkStack' = <<>>
  /\ hops' = 0

\* a call that goes through resolveSymlink
Resolving(call) ==
  LET Shifted(r) ==
        IF r.spin
          THEN /\ cache' = r.cache
               /\ UNCHANGED written
               /\ lastResult' = Unsettled
               /\ pc' = "resolveSymlink"
               /\ pending' = call
               /\ linkStack' = <<r.node>>
               /\ hops' = 1
        ELSE IF r.err # NoError THEN Settle([cache |-> r.cache, result |-> Rejected(r.err)])
        ELSE Settle(AfterResolve(backend, r.cache, call, r.node))
  IN /\ Issue(call)
     /\ locked' = TRUE
     /\ UNCHANGED <<backend, schedVars>>
     /\ lastCommit' = NoCommit
     /\ Shifted(FileCache_resolveSymlink(backend, cache, call.filePath))

\* a call that does not go through resolveSymlink
Direct(call, r) ==
  /\ Issue(call)
  /\ locked' = TRUE
  /\ UNCHANGED <<backend, schedVars>>
  /\ lastCommit' = NoCommit
  /\ Settle(r)

mkDir ==
  \E filePath \in Paths, recursive \in BOOLEAN, now \in Clock :
    LET call == [Call("mkDir", filePath, now) EXCEPT !.recursive = recursive]
    IN /\ pc = "idle"
       /\ Direct(call, NeatFS_mkDir(backend, cache, call))

mkLnk ==
  \E filePath \in Paths, destination \in Destinations, now \in Clock :
    /\ pc = "idle"
    /\ Direct([Call("mkLnk", filePath, now) EXCEPT !.destination = destination],
              FileCache_mkLnk(backend, cache, filePath, destination, now))

rm ==
  \E filePath \in Paths, recursive \in BOOLEAN, folder \in BOOLEAN, now \in Clock :
    LET call == [Call("rm", filePath, now) EXCEPT !.recursive = recursive, !.folder = folder]
    IN /\ pc = "idle"
       /\ Direct(call, NeatFS_rm(backend, cache, call))

linfo ==
  \E filePath \in Paths :
    /\ pc = "idle"
    /\ Direct(Call("linfo", filePath, 0), FileCache_linfo(backend, cache, filePath))

readLink ==
  \E filePath \in Paths :
    /\ pc = "idle"
    /\ Direct(Call("readLink", filePath, 0), NeatFS_readLink(backend, cache, filePath))

readDir ==
  \E filePath \in Paths :
    /\ pc = "idle"
    /\ Resolving(Call("readDir", filePath, 0))

readFile ==
  \E filePath \in Paths :
    /\ pc = "idle"
    /\ Resolving(Call("readFile", filePath, 0))

writeFile ==
  \E filePath \in Paths, data \in Bytes, now \in Clock :
    /\ pc = "idle"
    /\ Resolving([Call("writeFile", filePath, now) EXCEPT !.data = data])

info ==
  \E filePath \in Paths :
    /\ pc = "idle"
    /\ Resolving(Call("info", filePath, 0))

\* the loop of resolveSymlink from its second iteration on
resolveSymlink ==
  /\ pc = "resolveSymlink"
  /\ hops <= MaxSymlinkChain
  /\ UNCHANGED <<backend, locked, lastCall, lastCommit, ref, refResult, opCount, schedVars>>
  /\ IF Len(linkStack) < MaxSymlinkChain
       THEN LET file == Head(linkStack)
            IN IF cache[file].newFileType # "SYMLINK"
                 THEN Settle(AfterResolve(backend, cache, pending, file))
               ELSE /\ linkStack' = Append(Tail(linkStack), file)
                    /\ hops' = hops + 1
                    /\ UNCHANGED <<cache, pc, pending, lastResult, written>>
     ELSE Settle([cache |-> cache, result |-> Rejected(FSError("Max symlink chain!", <<>>))])

\* FileCache.commit
commit ==
  /\ Issue(Call("commit", <<>>, 0))
  /\ UNCHANGED schedVars
  /\ IF ~cache[<<>>].live
       THEN /\ Settle([cache |-> cache, result |-> Resolved])
            /\ lastCommit' = NoCommit
            /\ UNCHANGED <<backend, locked>>
     ELSE LET Committed(r) ==
                /\ Settle([cache |-> r.cache, result |-> IF r.err = NoError THEN Resolved ELSE Rejected(r.err)])
                /\ backend' = r.backend
                /\ lastCommit' = r.commit
                /\ locked' = FALSE
          IN Committed(FileCache_commit(backend, cache))

\* the caller receives the outcome of the call (the promise of the call settles)
returnToCaller ==
  /\ pc = "settled"
  /\ pc' = "idle"
  /\ lastCall' = NoCall
  /\ lastResult' = Resolved
  /\ lastCommit' = NoCommit
  /\ refResult' = PlainOutcome
  /\ UNCHANGED <<backend, cache, locked, pending, linkStack, hops, ref, written, opCount, schedVars>>

Next ==
  \/ mkDir
  \/ mkLnk
  \/ rm
  \/ linfo
  \/ readLink
  \/ readDir
  \/ readFile
  \/ writeFile
  \/ info
  \/ resolveSymlink
  \/ commit
  \/ returnToCaller

Spec == Init /\ [][Next]_vars

(***************************************************************************)
(* Claims                                                                  *)
(***************************************************************************)
\* C1: write-back transparency. Every call of a run on paths other than "/" that involves no
\* symlink has the outcome (value, absent, or error kind) it has on the plain in-memory tree,
\* whether or not commits are interleaved.
C1_WriteBackTransparency ==
  (pc = "settled" /\ ref.valid) => Outcome(lastResult) = refResult

\* the same comparison with the mtime of a linfo entry left out
TransparencyButMtime ==
  (pc = "settled" /\ ref.valid) => [Outcome(lastResult) EXCEPT !.mtime = 0] = [refResult EXCEPT !.mtime = 0]

\* C2: read-your-writes. A readFile of the path of the last writeFile that succeeded, with no
\* commit and no other change of that path in between, resolves with exactly the bytes
\* written, the empty byte string included, and does not read the file from the backend.
C2_ReadYourWrites ==
  (pc = "settled" /\ lastCall.op = "readFile" /\ written.valid /\ lastCall.filePath = written.filePath)
    => (lastResult.status = "ok" /\ lastResult.data = written.data /\ ~lastResult.fetched)

\* the empty byte string written over a file of the backend is read back
C2_EmptyReadBack ==
  /\ pc = "settled" /\ lastCall.op = "readFile"
  /\ written.valid /\ lastCall.filePath = written.filePath /\ written.data = ""
  /\ backend[lastCall.filePath].fileType = "FILE" /\ backend[lastCall.filePath].data # ""
  /\ lastResult.status = "ok" /\ lastResult.data = ""

\* the payload of the commit that has just settled
Built == pc = "settled" /\ lastCommit.built

PathsOf(list) == [i \in 1..Len(list) |-> list[i].filePath]

ToDelete == lastCommit.payload.filesToDelete
Folders == PathsOf(lastCommit.payload.foldersToCreate)
Files == PathsOf(lastCommit.payload.filesToWrite)
Links == PathsOf(lastCommit.payload.symlinksToCreate)
Metas == PathsOf(lastCommit.payload.metaUpdates)
Created == Range(Folders) \cup Range(Files) \cup Range(Links)
Listed == Range(ToDelete) \cup Created \cup Range(Metas)

\* the walk of commit comes to the node at filePath: every folder above it is an existing directory
Walked(tree, filePath) ==
  /\ filePath # Root
  /\ tree[filePath].live
  /\ \A above \in Paths : IsProperPrefix(above, filePath) => (tree[above].live /\ isDir(tree[above]))

\* the directory of filePath is one of the first `before` folders created, or a directory of
\* the backend that no deletion of the payload removes
ParentReady(filePath, before) ==
  \/ \E j \in 1..before : Folders[j] = dirname(filePath)
  \/ /\ lastCommit.stored[dirname(filePath)].fileType = "DIRECTORY"
     /\ \A k \in 1..Len(ToDelete) : ~IsPrefix(ToDelete[k], dirname(filePath))

\* C3: parents first. In every payload commit builds, the parent directory of each entry of
\* foldersToCreate, filesToWrite and symlinksToCreate is created earlier in foldersToCreate or
\* is a directory of the backend that the payload does not delete; foldersToCreate lists a
\* directory before its descendants.
C3_ParentsFirst ==
  Built =>
    /\ \A i \in 1..Len(Folders) : ParentReady(Folders[i], i - 1)
    /\ \A i \in 1..Len(Files) : ParentReady(Files[i], Len(Folders))
    /\ \A i \in 1..Len(Links) : ParentReady(Links[i], Len(Folders))
    /\ \A i, j \in 1..Len(Folders) : IsProperPrefix(Folders[i], Folders[j]) => i < j

\* a payload that creates a directory and, after it, something inside it
C3_NestedCreation ==
  /\ Built
  /\ \E i \in 1..Len(Folders) :
       /\ \E j \in 1..Len(Folders) : i < j /\ dirname(Folders[j]) = Folders[i]
       /\ lastCommit.stored[Folders[i]].fileType = "NONE"

\* C4 as stated: no proper descendant of a path of toDelete is in any of the five lists.
C4_NoDescendantListed ==
  Built => \A k \in 1..Len(ToDelete) : \A q \in Listed : ~IsProperPrefix(ToDelete[k], q)

\* C4, amended: no proper descendant of a path of toDelete is in toDelete or metaUpdates, and
\* one is in foldersToCreate, filesToWrite or symlinksToCreate only when the same payload
\* creates that path of toDelete again as a folder.
C4_DescendantOnlyOfRecreated ==
  Built =>
    \A k \in 1..Len(ToDelete) :
      /\ \A q \in Range(ToDelete) \cup Range(Metas) : ~IsProperPrefix(ToDelete[k], q)
      /\ \A q \in Created : IsProperPrefix(ToDelete[k], q) => ToDelete[k] \in Range(Folders)

\* a payload that deletes a path, creates it again as a folder and creates something in it
C4_RecreatedWithContent ==
  /\ Built
  /\ \E k \in 1..Len(ToDelete) :
       /\ ToDelete[k] \in Range(Folders)
       /\ \E q \in Created : IsProperPrefix(ToDelete[k], q)

\* C5: a deletion is emitted once. No path of toDelete is below another path of toDelete and
\* none occurs twice; a directory of the backend that was removed is in toDelete, and nothing
\* below it is in any list.
C5_DeleteOnce ==
  Built =>
    /\ \A i, j \in 1..Len(ToDelete) :
         i # j => (ToDelete[i] # ToDelete[j] /\ ~IsProperPrefix(ToDelete[i], ToDelete[j]))
    /\ \A d \in Paths :
         (Walked(lastCommit.tree, d) /\ lastCommit.tree[d].oldType = "DIRECTORY"
            /\ lastCommit.tree[d].newFileType = "NONEXISTENT")
           => (d \in Range(ToDelete) /\ \A q \in Listed : ~IsProperPrefix(d, q))

\* a directory of the backend that has a child was removed, and toDelete is that one path
C5_NonEmptyDirectoryRemoved ==
  /\ Built
  /\ \E d \in Paths :
       /\ lastCommit.stored[d].fileType = "DIRECTORY" /\ lastCommit.stored[d].children # <<>>
       /\ lastCommit.tree[d].oldType = "DIRECTORY" /\ lastCommit.tree[d].newFileType = "NONEXISTENT"
       /\ ToDelete = <<d>>
       /\ lastCommit.bulk = <<lastCommit.payload>>

\* the nodes commit deletes: they were in the backend and are gone or replaced
DeleteClass(f) ==
  /\ f.oldType # "NONEXISTENT"
  /\ \/ f.newFileType \in {"NONEXISTENT", "DIRECTORY_NEW", "SYMLINK_DIRTY"}
     \/ f.newFileType = "FILE_DIRTY" /\ f.oldType # "FILE"

\* C6: delete classification. The path of a node the walk reaches is in toDelete exactly when
\* its old type is not NONEXISTENT and its new type is NONEXISTENT, DIRECTORY_NEW,
\* SYMLINK_DIRTY, or FILE_DIRTY with an old type other than FILE; an overwritten file of the
\* backend is in filesToWrite and not in toDelete, a file replaced by a directory is in
\* toDelete and in foldersToCreate.
C6_DeleteClassification ==
  Built =>
    \A q \in Paths :
      Walked(lastCommit.tree, q) =>
        LET f == lastCommit.tree[q]
        IN /\ (q \in Range(ToDelete)) <=> DeleteClass(f)
           /\ (f.oldType = "FILE" /\ f.newFileType = "FILE_DIRTY")
                => (q \in Range(Files) /\ q \notin Range(ToDelete))
           /\ (f.oldType = "FILE" /\ f.newFileType = "DIRECTORY_NEW")
                => (q \in Range(ToDelete) /\ q \in Range(Folders))

\* a file of the backend was replaced by a directory
C6_FileReplacedByDirectory ==
  /\ Built
  /\ \E q \in Paths :
       /\ Walked(lastCommit.tree, q)
       /\ lastCommit.tree[q].oldType = "FILE" /\ lastCommit.tree[q].newFileType = "DIRECTORY_NEW"
       /\ q \in Range(ToDelete) /\ q \in Range(Folders)

\* C7: net-zero edits. A removal that succeeds leaves the node NONEXISTENT, and the payload of
\* a commit has no entry, in any of the five lists, for a path that is not in the backend and
\* whose node is NONEXISTENT again.
C7_NetZero ==
  /\ (pc = "settled" /\ lastCall.op = "rm" /\ lastResult.status = "ok")
       => (cache[lastCall.filePath].live /\ cache[lastCall.filePath].newFileType = "NONEXISTENT")
  /\ Built =>
       \A q \in Paths :
         (lastCommit.stored[q].fileType = "NONE" /\ lastCommit.tree[q].live
            /\ lastCommit.tree[q].newFileType = "NONEXISTENT")
           => q \notin Listed

\* a commit reaches a node that was created (its mtime was set) and removed again
C7_CreatedAndRemoved ==
  /\ Built
  /\ \E q \in Paths :
       /\ Walked(lastCommit.tree, q)
       /\ lastCommit.stored[q].fileType = "NONE"
       /\ lastCommit.tree[q].oldType = "NONEXISTENT" /\ lastCommit.tree[q].newFileType = "NONEXISTENT"
       /\ lastCommit.tree[q].metaDirty
       /\ q \notin Listed

\* C8: no pending change is dropped. When one of the five lists commit has built is not
\* empty, backend.bulk is called exactly once, with those lists.
C8_NoChangeDropped ==
  (Built /\ lastCommit.payload # EmptyPayload) => lastCommit.bulk = <<lastCommit.payload>>

\* the bytes of the existing file at filePath, Undefined when there is no such file
ContentsOf(filePath) ==
  IF cache[filePath].live
    THEN IF ~isFile(cache[filePath]) THEN Undefined
         ELSE IF cache[filePath].data # Undefined THEN cache[filePath].data
         ELSE backend[filePath].data
  ELSE IF backend[filePath].fileType = "FILE" THEN backend[filePath].data
  ELSE Undefined

\* the destination of the symlink at filePath, Undefined when there is no symlink
DestinationOf(filePath) ==
  IF ~cache[filePath].live \/ ~isSymlink(cache[filePath]) THEN Undefined
  ELSE IF cache[filePath].newFileType = "SYMLINK_DIRTY" THEN cache[filePath].destination
  ELSE backend[filePath].destination

\* C9: readFile follows symlinks. readFile of a symlink whose destination is an existing file
\* resolves with the contents of that file.
C9_ReadFileFollowsSymlink ==
  (pc = "settled" /\ lastCall.op = "readFile")
    => \A d \in Destinations \ {""} :
         (DestinationOf(lastCall.filePath) = d /\ ContentsOf(PathOfString(d)) # Undefined)
           => (lastResult.status = "ok" /\ lastResult.data = ContentsOf(PathOfString(d)))

\* filePath is a symlink on a cycle of one or two symlinks
OnCycle(filePath) ==
  \E d \in Destinations \ {""} :
    /\ DestinationOf(filePath) = d
    /\ \/ PathOfString(d) = filePath
       \/ \E e \in Destinations \ {""} :
            DestinationOf(PathOfString(d)) = e /\ PathOfString(e) = filePath

\* C10: symlink resolution is bounded. The loop of resolveSymlink makes at most 64
\* iterations, and readFile of a symlink on a cycle fails with the symlink-chain error.
C10_ResolveSymlinkBounded ==
  /\ hops <= MaxSymlinkChain
  /\ (pc = "settled" /\ lastCall.op = "readFile" /\ OnCycle(lastCall.filePath))
       => (lastResult.status = "error" /\ lastResult.err.code = "Max symlink chain!")

\* C11: info never returns a symlink. An info call that resolves with an entry resolves with
\* one whose fileType is FILE or DIRECTORY.
C11_InfoNeverSymlink ==
  (pc = "settled" /\ lastCall.op = "info" /\ lastResult.status = "ok")
    => lastResult.entry.fileType \in {"FILE", "DIRECTORY"}

\* C12: destination round trip. mkLnk that succeeds leaves a symlink with the destination it
\* was given; as long as that symlink stands, readLink resolves with exactly that destination
\* and linfo reports a SYMLINK with it.
C12_DestinationRoundTrip ==
  (pc = "settled" /\ cache[lastCall.filePath].live)
    => LET file == cache[lastCall.filePath]
       IN /\ (lastCall.op = "mkLnk" /\ lastResult.status = "ok")
               => (file.newFileType = "SYMLINK_DIRTY" /\ file.destination = lastCall.destination)
          /\ (lastCall.op = "readLink" /\ file.newFileType = "SYMLINK_DIRTY")
               => (lastResult.status = "ok" /\ lastResult.data = file.destination)
          /\ (lastCall.op = "linfo" /\ file.newFileType = "SYMLINK_DIRTY")
               => (lastResult.status = "ok" /\ lastResult.entry.fileType = "SYMLINK"
                     /\ lastResult.entry.destination = file.destination)

\* C13: root invariant. Whenever the root node is materialised its type is DIRECTORY or
\* DIRECTORY_NEW.
C13_RootIsDirectory == cache[Root].live => isDir(cache[Root])

\* what a node holds
HasData(file) == file.data # Undefined
HasChildren(file) == file.hasChildren
HasDestination(file) == file.destination # Undefined

\* C14: payload/type consistency. Every node of the shadow tree holds children only as a
\* directory, data only as a file and a destination only as a symlink, so at most one of the
\* three, and a NONEXISTENT node none.
C14_PayloadMatchesType ==
  \A q \in Paths :
    cache[q].live =>
      /\ HasChildren(cache[q]) => isDir(cache[q])
      /\ HasData(cache[q]) => isFile(cache[q])
      /\ HasDestination(cache[q]) => isSymlink(cache[q])

\* a directory of the backend was replaced by a file: it holds the data and no children
C14_DirectoryBecameFile ==
  \E q \in Paths :
    /\ cache[q].live /\ cache[q].oldType = "DIRECTORY" /\ cache[q].newFileType = "FILE_DIRTY"
    /\ HasData(cache[q]) /\ ~HasChildren(cache[q]) /\ ~HasDestination(cache[q])

\* the node at filePath can be reached from the root of the shadow tree
Reachable(tree, filePath) == (filePath = Root /\ tree[Root].live) \/ Walked(tree, filePath)

C16_ChildrenUnique ==
  /\ \A d \in Paths :
       (cache[d].live /\ HasChildren(cache[d])) =>
         LET children == cache[d].children
         IN /\ \A i, j \in 1..Len(children) : i # j => children[i] # children[j]
            /\ \A i \in 1..Len(children) :
                 /\ children[i] \notin {"", "/"}
                 /\ join(d, children[i]) \in Paths
                 /\ cache[join(d, children[i])].live
  /\ \A q \in Paths \ {Root} :
       cache[q].live => (HasChildren(cache[dirname(q)]) /\ basename(q) \in Range(cache[dirname(q)].children))

\* a directory lists a child loaded from the backend and a placeholder for a missing name
C16_PlaceholderBesideChild ==
  \E d \in Paths :
    /\ cache[d].live /\ HasChildren(cache[d])
    /\ \E i, j \in 1..Len(cache[d].children) :
         /\ cache[join(d, cache[d].children[i])].oldType # "NONEXISTENT"
         /\ cache[join(d, cache[d].children[j])].oldType = "NONEXISTENT"
         /\ cache[join(d, cache[d].children[j])].newFileType = "NONEXISTENT"

\* what the backend b holds at filePath, as a node loaded from it shows it
StoredView(b, filePath) ==
  [fileType |-> IF b[filePath].fileType = "NONE" THEN Undefined ELSE b[filePath].fileType,
   data |-> IF b[filePath].fileType = "FILE" THEN Node_readFile(b, filePath).data ELSE Undefined,
   destination |-> Undefined]

\* what the calls show at filePath: the node of the shadow tree c where there is one, what
\* the backend b holds where the tree is not loaded yet, nothing below a node that is no
\* directory or does not list the name
ViewAt(b, c, filePath) ==
  IF ~c[Root].live THEN StoredView(b, filePath)
  ELSE IF c[filePath].live
    THEN [fileType |-> toBasicFileType(c[filePath].newFileType),
          data |-> IF ~isFile(c[filePath]) THEN Undefined
                   ELSE IF HasData(c[filePath]) THEN c[filePath].data
                   ELSE StoredView(b, filePath).data,
          destination |-> c[filePath].destination]
  ELSE LET above == {a \in Paths : IsProperPrefix(a, filePath) /\ c[a].live}
           nearest == CHOOSE a \in above : \A a2 \in above : Len(a2) <= Len(a)
       IN IF isDir(c[nearest]) /\ ~HasChildren(c[nearest]) THEN StoredView(b, filePath)
          ELSE [fileType |-> Undefined, data |-> Undefined, destination |-> Undefined]

\* existence, type, contents and destination of every path, as the calls show them
View(b, c) == [q \in Paths |-> ViewAt(b, c, q)]

\* the lists the next commit would build, and whether its walk would fail
NextPayload(b, c) ==
  IF ~c[Root].live THEN [payload |-> EmptyPayload, failed |-> FALSE]
  ELSE LET Walk(w) == [payload |-> w.payload, failed |-> w.err # NoError]
       IN Walk(BuildPayload(b, c))

\* C17: errors do not change state. A call that fails leaves what the cache shows at every
\* path (existence, type, contents, destination) and the payload the next commit would build
\* as they were before the call.
C17_ErrorsChangeNothing ==
  [][(pc = "idle" /\ pc' = "settled" /\ lastResult'.status = "error")
       => (View(backend', cache') = View(backend, cache)
             /\ NextPayload(backend', cache') = NextPayload(backend, cache))]_vars

\* the same with the root left a directory, as it is while no call removes "/"
ErrorsChangeNothingUnderDirectoryRoot ==
  [][(pc = "idle" /\ pc' = "settled" /\ lastResult'.status = "error"
        /\ (cache[Root].live => cache[Root].newFileType = "DIRECTORY"))
       => (View(backend', cache') = View(backend, cache)
             /\ NextPayload(backend', cache') = NextPayload(backend, cache))]_vars

\* the error of the first folder on the way to filePath, its parent included, that view shows
\* missing (ENOENT) or as no directory (ENOTDIR); "" when the way is clear
AncestorError(view, filePath) ==
  LET parent == dirname(filePath)
      bad == {i \in 0..Len(parent) : view[SubSeq(parent, 1, i)].fileType # "DIRECTORY"}
      first == CHOOSE i \in bad : \A j \in bad : i <= j
  IN IF bad = {} THEN ""
     ELSE IF view[SubSeq(parent, 1, first)].fileType = Undefined THEN "ENOENT"
     ELSE "ENOTDIR"

\* the error a create at filePath must fail with; "" when it must succeed
CreateError(view, filePath) ==
  IF view[filePath].fileType # Undefined THEN "EEXIST" ELSE AncestorError(view, filePath)

\* C18: create preconditions. A non-recursive mkDir or a mkLnk succeeds exactly when the path
\* does not exist and its parent is an existing directory; it fails with EEXIST when the path
\* exists, with ENOENT when a folder on the way is missing and with ENOTDIR when one is no
\* directory; on success the node is DIRECTORY_NEW with an empty loaded children list,
\* respectively SYMLINK_DIRTY with the destination given.
C18_CreatePreconditions ==
  [][(pc = "idle" /\ pc' = "settled" /\ lastCall'.op \in {"mkDir", "mkLnk"} /\ ~lastCall'.recursive)
       => LET expected == CreateError(View(backend, cache), lastCall'.filePath)
              file == cache'[lastCall'.filePath]
          IN /\ lastResult'.err.code = expected
             /\ (lastResult'.status = "ok") <=> (expected = "")
             /\ (lastResult'.status = "ok" /\ lastCall'.op = "mkDir")
                  => (file.newFileType = "DIRECTORY_NEW" /\ file.hasChildren /\ file.children = <<>>)
             /\ (lastResult'.status = "ok" /\ lastCall'.op = "mkLnk")
                  => (file.newFileType = "SYMLINK_DIRTY" /\ file.destination = lastCall'.destination)]_vars

\* the same with the root left a directory, as it is while no call removes "/"
CreatePreconditionsUnderDirectoryRoot ==
  [][(pc = "idle" /\ pc' = "settled" /\ lastCall'.op \in {"mkDir", "mkLnk"} /\ ~lastCall'.recursive
        /\ (cache[Root].live => cache[Root].newFileType = "DIRECTORY"))
       => LET expected == CreateError(View(backend, cache), lastCall'.filePath)
              file == cache'[lastCall'.filePath]
          IN /\ lastResult'.err.code = expected
             /\ (lastResult'.status = "ok") <=> (expected = "")
             /\ (lastResult'.status = "ok" /\ lastCall'.op = "mkDir")
                  => (file.newFileType = "DIRECTORY_NEW" /\ file.hasChildren /\ file.children = <<>>)
             /\ (lastResult'.status = "ok" /\ lastCall'.op = "mkLnk")
                  => (file.newFileType = "SYMLINK_DIRTY" /\ file.destination = lastCall'.destination)]_vars

\* filePath and the folders on the way to it, "/" included
Prefixes(filePath) == {SubSeq(filePath, 1, i) : i \in 0..Len(filePath)}

\* C19: recursive mkDir postcondition. Whenever mkDir(p, {recursive: true}) completes without
\* error, p and every ancestor of p exist and are directories; the ancestors that were
\* directories before the call are shown as before, and a call that finds p and every ancestor
\* a directory already succeeds and changes nothing.
C19_RecursiveMkDir ==
  [][(pc = "idle" /\ pc' = "settled" /\ lastCall'.op = "mkDir" /\ lastCall'.recursive)
       => LET before == View(backend, cache)
              after == View(backend', cache')
              way == Prefixes(lastCall'.filePath)
          IN /\ lastResult'.status = "ok"
                  => /\ \A q \in way : after[q].fileType = "DIRECTORY"
                     /\ \A q \in way \ {lastCall'.filePath} :
                          before[q].fileType = "DIRECTORY" => after[q].fileType = before[q].fileType
             /\ (\A q \in way : before[q].fileType = "DIRECTORY")
                  => (lastResult'.status = "ok" /\ after = before)]_vars

\* the paths at and below filePath
Subtree(filePath) == {q \in Paths : IsPrefix(filePath, q)}

\* the error rm must fail with where view is what the calls show; "" when it must succeed
RmError(view, call) ==
  LET fileType == view[call.filePath].fileType
      children == {q \in Paths : q # call.filePath /\ dirname(q) = call.filePath
                                   /\ view[q].fileType # Undefined}
  IN IF fileType = Undefined
       THEN IF AncestorError(view, call.filePath) = "ENOTDIR" THEN "ENOTDIR" ELSE "ENOENT"
     ELSE IF fileType = "DIRECTORY" /\ ~call.folder THEN "ENOTFILE"
     ELSE IF fileType = "DIRECTORY" /\ ~call.recursive /\ children # {} THEN "ENOTEMPTY"
     ELSE ""

\* rm settles with the error code expected, or with none; a failed rm leaves filePath and what
\* is below it as they were, a successful one leaves nothing at or below filePath
RmOutcome(expected) ==
  LET before == View(backend, cache)
      after == View(backend', cache')
      below == Subtree(lastCall'.filePath)
  IN /\ lastResult'.err.code = expected
     /\ (lastResult'.status = "ok") <=> (expected = "")
     /\ lastResult'.status = "error" => \A q \in below : after[q] = before[q]
     /\ lastResult'.status = "ok" => \A q \in below : after[q].fileType = Undefined

\* C20: rm outcomes. rm(p, opts) fails with ENOENT when p does not exist, with ENOTFILE when p
\* is a directory and folder is not true, with ENOTEMPTY when p is a directory with an existing
\* child, folder is true and recursive is not; in each failing case p and its subtree are as
\* before.  In every other case it succeeds, and afterwards p is absent and nothing below p
\* is reachable.
C20_RmOutcomes ==
  [][(pc = "idle" /\ pc' = "settled" /\ lastCall'.op = "rm")
       => LET Claimed(e) == RmOutcome(IF e = "ENOTDIR" THEN "ENOENT" ELSE e)
          IN Claimed(RmError(View(backend, cache), lastCall'))]_vars

\* C20 as the code has it: where p does not exist because a folder on the way to it is a file
\* or a symlink, rm fails with ENOTDIR; everything else as above
C20_RmOutcomesAfterWalk ==
  [][(pc = "idle" /\ pc' = "settled" /\ lastCall'.op = "rm")
       => RmOutcome(RmError(View(backend, cache), lastCall'))]_vars

\* a directory with a child in it has been removed with folder and recursive, and neither
\* is shown any more
C20_FolderRemovedWithChild ==
  /\ pc = "settled" /\ lastCall.op = "rm" /\ lastResult.status = "ok"
  /\ lastCall.folder /\ lastCall.recursive
  /\ lastCall.filePath = <<"a">>
  /\ lastCommit.ran = FALSE
  /\ backend[<<"a", "c">>].fileType = "FILE"
  /\ \A q \in Subtree(<<"a">>) : ViewAt(backend, cache, q).fileType = Undefined

ReadOps == {"readDir", "readFile", "readLink", "linfo", "info"}

\* names lists every element once
NoDuplicates(names) == \A i, j \in 1..Len(names) : names[i] = names[j] => i = j

\* the names of the children of filePath that view shows
ChildNames(view, filePath) ==
  {basename(q) : q \in {q \in Paths : q # filePath /\ dirname(q) = filePath /\ view[q].fileType # Undefined}}

\* C21: readDir is exact and reads are pure. A readDir that succeeds returns the names of the
\* children that exist, each once, and no name of a placeholder or of a removed child; no step
\* of readDir, readFile, readLink, linfo or info fires a callback or changes the payload the
\* next commit would build.
C21_ReadsExactAndPure ==
  [][(pc' # "idle" /\ lastCall'.op \in ReadOps)
       => /\ lastResult'.fired = <<>>
          /\ NextPayload(backend', cache') = NextPayload(backend, cache)
          /\ (lastCall'.op = "readDir" /\ lastResult'.status = "ok")
               => /\ NoDuplicates(lastResult'.names)
                  /\ Range(lastResult'.names) = ChildNames(View(backend', cache'), lastCall'.filePath)]_vars

\* readDir of "/" has returned one name while the root holds a removed child or a placeholder
\* beside it and a change waits for the next commit
C21_ListedBesidePlaceholder ==
  /\ pc = "settled" /\ lastCall.op = "readDir" /\ lastCall.filePath = Root /\ lastResult.status = "ok"
  /\ Len(lastResult.names) = 1
  /\ Len(cache[Root].children) = 2
  /\ NextPayload(backend, cache).payload # EmptyPayload

\* the paths in the set paths, the shorter ones first
RECURSIVE TopDown(_)
TopDown(paths) ==
  IF paths = {} THEN <<>>
  ELSE LET first == CHOOSE q \in paths : \A q2 \in paths : Len(q) <= Len(q2)
       IN <<first>> \o TopDown(paths \ {first})

\* the callbacks a call that succeeds has to fire where view is what the calls showed before it
ExpectedFired(view, call) ==
  LET missing == {q \in Prefixes(call.filePath) \ {Root} : view[q].fileType = Undefined}
      created == TopDown(missing)
  IN CASE call.op = "mkDir" /\ call.recursive
            -> [i \in 1..Len(created) |-> Fired("onFileCreated", created[i], "DIRECTORY")]
       [] call.op = "mkDir" /\ ~call.recursive -> <<Fired("onFileCreated", call.filePath, "DIRECTORY")>>
       [] call.op = "mkLnk" -> <<Fired("onFileCreated", call.filePath, "SYMLINK")>>
       [] call.op = "rm" -> <<Fired("onFileDeleted", call.filePath, Undefined)>>
       [] call.op = "writeFile"
            -> IF view[call.filePath].fileType = Undefined
                 THEN <<Fired("onFileCreated", call.filePath, "FILE"),
                        Fired("onFileContentsChanged", call.filePath, "FILE")>>
               ELSE <<Fired("onFileContentsChanged", call.filePath, "FILE")>>
       [] OTHER -> <<>>

\* the callbacks are those of the call that settles: what ExpectedFired says when it succeeds,
\* none when it fails, none from a commit
FiredMatchesEffect ==
  (pc # "settled" /\ pc' = "settled" /\ lastCall'.op \in MutatingOps \cup {"commit"})
    => lastResult'.fired = IF lastResult'.status = "ok"
                             THEN ExpectedFired(View(backend, cache), lastCall')
                           ELSE <<>>

\* C30: observer events match effects. Every mkDir, mkLnk, rm and writeFile that succeeds has
\* fired its callbacks with the path affected by the time it settles (onFileCreated for a
\* creation, onFileDeleted for a removal, onFileContentsChanged for a write, after onFileCreated
\* when the write creates the file), in the order of the effects; commit fires none of them; a
\* call that fails has fired none.
C30_EventsMatchEffects == [][FiredMatchesEffect]_vars

\* the same with the root left a directory, as it is while no call removes "/"
EventsMatchEffectsUnderDirectoryRoot ==
  [][(cache[Root].live => cache[Root].newFileType = "DIRECTORY") => FiredMatchesEffect]_vars

\* the error backend.bulk threw in the commit recorded in lastCommit; NoError when it was not
\* called or returned
BulkError ==
  IF lastCommit.bulk = <<>> THEN NoError
  ELSE RAMBackend_bulk(lastCommit.stored, lastCommit.bulk[1]).err

\* a commit that found a materialised root has settled with the mutex released and the root
\* cleared, and rejected with the error of bulk if bulk threw
CommitCleanedUp ==
  (pc = "settled" /\ lastCall.op = "commit" /\ lastCommit.ran)
    => /\ ~locked
       /\ ~cache[Root].live
       /\ BulkError # NoError => (lastResult.status = "error" /\ lastResult.err = BulkError)

\* C25: commit always cleans up. After a commit that found a materialised root has completed,
\* whether bulk succeeded, was skipped or threw, the mutex is released and the root reference
\* is cleared, so that the next call rebuilds the shadow tree from the backend; a failure of
\* bulk is reported to the caller of commit.
C25_CommitCleansUp == CommitCleanedUp

\* the same for the commits that found the root a directory
CommitCleansUpUnderDirectoryRoot ==
  isDir(lastCommit.tree[Root]) => CommitCleanedUp

\* C24: mutex span. While a shadow tree exists, from the first call after a commit to the end
\* of the next commit, the cache holds the mutex of the backend: every read and every change of
\* the tree, and every call of the backend, happens with the mutex held.
C24_MutexSpan == cache[Root].live => locked

\* the same with the root left a directory, as it is while no call removes "/"
MutexSpanUnderDirectoryRoot == (cache[Root].live /\ isDir(cache[Root])) => locked

(***************************************************************************)
(* The scheduling layer: facade calls that overlap.  NeatFS.wrap counts    *)
(* the calls in flight and sets the commit timer; every FileCache          *)
(* operation is a task on promiseChain and the first task runs, one await  *)
(* after the other.  The files are those of an empty RAMBackend: /b is     *)
(* written and read, /a is made by the recursive mkDir, "/" is walked by   *)
(* forEach.                                                                *)
(***************************************************************************)
\* what alwaysCommitCacheAfter and cacheCommitDelay are set to to switch a trigger off
Infinity == 99

SchedFile == <<"b">>

SchedDir == <<"a">>

\* NeatFS.functions, in the order a Set iterates
Listeners == <<"f", "g">>

\* the settings of alwaysCommitCacheAfter and cacheCommitDelay a run starts with
SchedConfigs ==
  { [alwaysCommitCacheAfter |-> Infinity, cacheCommitDelay |-> 0],
    [alwaysCommitCacheAfter |-> Infinity, cacheCommitDelay |-> 1],
    [alwaysCommitCacheAfter |-> Infinity, cacheCommitDelay |-> Infinity],
    [alwaysCommitCacheAfter |-> 1, cacheCommitDelay |-> 1],
    [alwaysCommitCacheAfter |-> 1, cacheCommitDelay |-> Infinity] }

\* a FileCache operation handed to promiseChain.enqueue; call: the facade call that awaits it
\* pc: "start", "locked" after lockBackend; for commit then "bulk" after backend.bulk and
\* "released" after mutex.release()
Task(id, op, filePath, data, call) ==
  [id |-> id, op |-> op, filePath |-> filePath, data |-> data, call |-> call, pc |-> "start"]

\* a facade call that awaits a FileCache operation; once that has settled: failed when it
\* rejected, absent when linfo found nothing, fileType what linfo found, listed how many
\* entries readDir returned
FacadeCall(op, awaits) == [NoFacadeCall EXCEPT !.op = op, !.awaits = awaits]

\* PromiseChain.enqueue: the task is the last of the chain
PromiseChain_enqueue(chain, task) == Append(chain, task)

\* PromiseChain: a task awaits the tasks enqueued before it, so the first of the chain is the
\* one that runs
PromiseChain_running(chain) == 1

\* a FileCache operation that runs its body at once, ahead of the chain
FileCache_enqueue_unchained(chain, task) == <<task>> \o chain

\* the FileCache operations: `return this.promiseChain.enqueue(async () => { ... })`
FileCache_enqueue(chain, task) == PromiseChain_enqueue(chain, task)

\* a lockBackend that tells nobody
FileCache_lockBackend_silent(reported) == <<>>

\* FileCache.lockBackend: the listeners called with onPossibleUnknownChanges, given whether
\* mutex.lock() reported stale (returned false)
FileCache_lockBackend(reported) == IF reported THEN Listeners ELSE <<>>

\* the body of a task other than commit, after lockBackend
FileCache_run(b, c, task) ==
  LET call == [Call(task.op, task.filePath, 1) EXCEPT !.data = task.data]
      Resolve(r) ==
        IF r.spin THEN [cache |-> r.cache, result |-> Rejected(FSError("Max symlink chain!", <<>>))]
        ELSE IF r.err # NoError THEN [cache |-> r.cache, result |-> Rejected(r.err)]
        ELSE AfterResolve(b, r.cache, call, r.node)
  IN CASE task.op = "linfo" -> FileCache_linfo(b, c, task.filePath)
       [] task.op = "mkDir" -> FileCache_mkDir(b, c, task.filePath, 1)
       [] task.op = "deleteFile" -> FileCache_deleteFile(b, c, task.filePath, 1)
       [] OTHER -> Resolve(FileCache_resolveSymlink(b, c, task.filePath))

\* a decision that takes the staleness trigger only after the bound has passed
NeatFS_scheduleCommit_late(elapsed, always, delay) ==
  IF elapsed > always THEN "commit"
  ELSE IF delay # Infinity THEN "timer"
  ELSE "nothing"

\* a decision that takes a delay of zero for no delay at all
NeatFS_scheduleCommit_skipsZero(elapsed, always, delay) ==
  IF elapsed >= always THEN "commit"
  ELSE IF delay # Infinity /\ delay # 0 THEN "timer"
  ELSE "nothing"

\* NeatFS.wrap, the decision taken when operationStack is back at zero
NeatFS_scheduleCommit(elapsed, always, delay) ==
  IF elapsed >= always THEN "commit"
  ELSE IF delay # Infinity THEN "timer"
  ELSE "nothing"

SchedInit ==
  /\ SchedIdle
  /\ \E config \in SchedConfigs :
       /\ alwaysCommitCacheAfter = config.alwaysCommitCacheAfter
       /\ cacheCommitDelay = config.cacheCommitDelay
  /\ backend = EmptyBackend
  /\ cache = [q \in Paths |-> NoCachedFile]
  /\ locked = FALSE
  /\ lastCommit = NoCommit
  /\ opCount = 0
  /\ pc = "idle"
  /\ pending = NoCall
  /\ linkStack = <<>>
  /\ hops = 0
  /\ lastCall = NoCall
  /\ lastResult = Resolved
  /\ written = NothingWritten
  /\ ref = PlainOf(backend)
  /\ refResult = PlainOutcome

\* the settings never change
Settings == <<alwaysCommitCacheAfter, cacheCommitDelay>>

\* a wrap that forgets clearTimeout
WrapEnter_keepsTimer(n) ==
  /\ operationStack' = operationStack + n
  /\ UNCHANGED <<timers, commitTimeout>>
  /\ quiet' = "busy"

\* NeatFS.wrap up to the call of the operation, entered n times at once
WrapEnter(n) ==
  /\ operationStack' = operationStack + n
  /\ timers' = {t \in timers : t.id # commitTimeout}
  /\ commitTimeout' = 0
  /\ quiet' = "busy"

\* a commit that starts its walk at once, whatever runs
FileCache_enqueueCommit_reentrant(chain, task) == <<task>> \o chain

\* FileCache.commit: `return this.promiseChain.enqueue(async () => { ... })`
FileCache_enqueueCommit(chain, task) == PromiseChain_enqueue(chain, task)

\* promiseChain.enqueue of a FileCache operation
Enqueue(op, filePath, data, call) ==
  /\ promiseChain' = FileCache_enqueue(promiseChain, Task(nextId, op, filePath, data, call))
  /\ nextId' = nextId + 1

\* NeatFS.commit, called while the timers in armed are set
NeatFS_commit(armed) ==
  /\ timers' = {t \in armed : t.id # commitTimeout}
  /\ commitTimeout' = 0
  /\ sinceCommit' = 0
  /\ promiseChain' = FileCache_enqueueCommit(promiseChain, Task(nextId, "commit", Root, Undefined, 0))
  /\ nextId' = nextId + 1

\* the finally block of NeatFS.wrap, left n times at once
WrapFinally(n) ==
  /\ operationStack' = operationStack - n
  /\ IF operationStack - n = 0
       THEN LET decision == NeatFS_scheduleCommit(sinceCommit, alwaysCommitCacheAfter, cacheCommitDelay)
            IN CASE decision = "commit" ->
                      /\ NeatFS_commit(timers)
                      /\ quiet' = "committed"
                 [] decision = "timer" ->
                      /\ timers' = timers \cup {[id |-> nextId, due |-> cacheCommitDelay]}
                      /\ commitTimeout' = nextId
                      /\ nextId' = nextId + 1
                      /\ quiet' = "armed"
                      /\ UNCHANGED <<promiseChain, sinceCommit>>
                 [] OTHER ->
                      /\ quiet' = "idle"
                      /\ UNCHANGED <<timers, commitTimeout, nextId, promiseChain, sinceCommit>>
     ELSE UNCHANGED <<timers, commitTimeout, nextId, promiseChain, sinceCommit, quiet>>

\* a new facade call takes the next slot of calls
NewCall(call) ==
  /\ opCount < MaxCalls
  /\ opCount' = opCount + 1
  /\ calls' = [calls EXCEPT ![opCount + 1] = call]

\* NeatFS.writeFile
callWriteFile ==
  \E data \in Bytes :
    /\ NewCall(FacadeCall("writeFile", "writeFile"))
    /\ WrapEnter(1)
    /\ Enqueue("writeFile", SchedFile, data, opCount + 1)
    /\ UNCHANGED <<backend, cache, locked, lastCommit, fsVars, written, sinceCommit, Settings, stale, notified>>

\* NeatFS.readFile
callReadFile ==
  /\ NewCall(FacadeCall("readFile", "readFile"))
  /\ WrapEnter(1)
  /\ Enqueue("readFile", SchedFile, Undefined, opCount + 1)
  /\ UNCHANGED <<backend, cache, locked, lastCommit, fsVars, written, sinceCommit, Settings, stale, notified>>

\* NeatFS.mkDir('/a', {recursive: true}) up to its first await: wrap, and inside it the wrap
\* of this.linfo('/a')
callMkDir ==
  /\ NewCall(FacadeCall("mkDir", "linfo"))
  /\ WrapEnter(2)
  /\ Enqueue("linfo", SchedDir, Undefined, opCount + 1)
  /\ UNCHANGED <<backend, cache, locked, lastCommit, fsVars, written, sinceCommit, Settings, stale, notified>>

\* NeatFS.forEach('/', callback) up to its first await: fileCache.linfo, without wrap
callForEach ==
  /\ NewCall(FacadeCall("forEach", "linfo"))
  /\ Enqueue("linfo", Root, Undefined, opCount + 1)
  /\ UNCHANGED <<backend, cache, locked, lastCommit, fsVars, written, sinceCommit, Settings, stale, notified,
                 operationStack, timers, commitTimeout, quiet>>

\* NeatFS.commit called by the client
callCommit ==
  /\ opCount < MaxCalls
  /\ opCount' = opCount + 1
  /\ NeatFS_commit(timers)
  /\ quiet' = IF quiet = "armed" THEN "ended" ELSE quiet
  /\ UNCHANGED <<backend, cache, locked, lastCommit, fsVars, written, calls, operationStack, Settings, stale, notified>>

\* the timer set by wrap fires: NeatFS.commit
timerFires ==
  \E t \in timers :
    /\ t.due = 0
    /\ NeatFS_commit(timers \ {t})
    /\ quiet' = IF quiet = "armed" /\ t.id = commitTimeout THEN "committed" ELSE "twice"
    /\ UNCHANGED <<backend, cache, locked, lastCommit, opCount, fsVars, written, calls, operationStack, Settings,
                   stale, notified>>

\* time passes, as far as the timers and the staleness trigger can tell
tick ==
  /\ sinceCommit' = IF alwaysCommitCacheAfter # Infinity /\ sinceCommit < alwaysCommitCacheAfter
                      THEN sinceCommit + 1 ELSE sinceCommit
  /\ timers' = {[t EXCEPT !.due = IF @ > 0 THEN @ - 1 ELSE 0] : t \in timers}
  /\ (sinceCommit' # sinceCommit \/ timers' # timers)
  /\ UNCHANGED <<backend, cache, locked, lastCommit, opCount, fsVars, written, promiseChain, calls, operationStack,
                 commitTimeout, Settings, nextId, stale, notified, quiet>>

\* the task that runs
Running == promiseChain[PromiseChain_running(promiseChain)]

\* the task that runs comes to the place nextPc of its body
Goes(nextPc) == promiseChain' = [promiseChain EXCEPT ![PromiseChain_running(promiseChain)].pc = nextPc]

\* the first await of a task: lockBackend; commit comes here only with a root
lockBackend ==
  /\ promiseChain # <<>>
  /\ Running.pc = "start"
  /\ ~(Running.op = "commit" /\ ~cache[Root].live)
  /\ \E reported \in (IF locked THEN {FALSE} ELSE BOOLEAN) :
       /\ stale' = reported
       /\ notified' = FileCache_lockBackend(reported)
  /\ locked' = TRUE
  /\ Goes("locked")
  /\ UNCHANGED <<backend, cache, lastCommit, opCount, fsVars, written, calls, operationStack, commitTimeout,
                 timers, sinceCommit, Settings, nextId, quiet>>

\* the task in front has finished
Finished ==
  /\ promiseChain' = [i \in 1..(Len(promiseChain) - 1) |->
                        IF i < PromiseChain_running(promiseChain) THEN promiseChain[i] ELSE promiseChain[i + 1]]
  /\ stale' = FALSE
  /\ notified' = <<>>

\* the rest of a task other than commit; the promise the facade call awaits settles
runTask ==
  /\ promiseChain # <<>>
  /\ Running.pc = "locked"
  /\ Running.op # "commit"
  /\ LET task == Running
         Ran(r) ==
           /\ cache' = r.cache
           /\ written' = IF task.op = "writeFile" /\ r.result.status = "ok"
                            THEN [valid |-> TRUE, filePath |-> task.filePath, data |-> task.data]
                          ELSE written
           /\ calls' = [calls EXCEPT ![task.call].settled = TRUE,
                                     ![task.call].absent = (task.op = "linfo" /\ r.result.status = "ok"
                                                              /\ r.result.entry.fileType = Undefined),
                                     ![task.call].failed = (r.result.status = "error"),
                                     ![task.call].fileType = IF task.op = "linfo" /\ r.result.status = "ok"
                                                               THEN r.result.entry.fileType ELSE Undefined,
                                     ![task.call].listed = Len(r.result.names)]
     IN Ran(FileCache_run(backend, cache, task))
  /\ Finished
  /\ UNCHANGED <<backend, locked, lastCommit, opCount, fsVars, operationStack, commitTimeout, timers, sinceCommit,
                 Settings, nextId, quiet>>

\* commit without a root returns at once
commitSkips ==
  /\ promiseChain # <<>>
  /\ Running.pc = "start"
  /\ Running.op = "commit"
  /\ ~cache[Root].live
  /\ Finished
  /\ UNCHANGED <<backend, cache, locked, lastCommit, opCount, fsVars, written, calls, operationStack, commitTimeout, timers,
                 sinceCommit, Settings, nextId, quiet>>

\* commit: the walk and backend.bulk
commitBulk ==
  /\ promiseChain # <<>>
  /\ Running.pc = "locked"
  /\ Running.op = "commit"
  /\ LET Committed(r) ==
           /\ backend' = r.backend
           /\ lastCommit' = r.commit
     IN Committed(FileCache_commit(backend, cache))
  /\ Goes("bulk")
  /\ UNCHANGED <<cache, locked, opCount, fsVars, written, calls, operationStack, commitTimeout, timers,
                 sinceCommit, Settings, nextId, stale, notified, quiet>>

\* commit, the finally block: mutex.release()
commitRelease ==
  /\ promiseChain # <<>>
  /\ Running.pc = "bulk"
  /\ locked' = FALSE
  /\ Goes("released")
  /\ UNCHANGED <<backend, cache, lastCommit, opCount, fsVars, written, calls, operationStack, commitTimeout,
                 timers, sinceCommit, Settings, nextId, stale, notified, quiet>>

\* commit, the finally block after the release: feedTheGC and this.root = undefined
commitFinish ==
  /\ promiseChain # <<>>
  /\ Running.pc = "released"
  /\ cache' = IF FeedTheGC(cache) # NoError THEN cache ELSE [q \in Paths |-> NoCachedFile]
  /\ lastCommit' = NoCommit
  /\ written' = NothingWritten
  /\ Finished
  /\ UNCHANGED <<backend, locked, opCount, fsVars, calls, operationStack, commitTimeout, timers, sinceCommit,
                 Settings, nextId, quiet>>

\* a facade call goes on after the promise it awaits has settled
resume ==
  \E id \in CallIds :
    /\ calls[id].settled
    /\ CASE calls[id].op = "mkDir" /\ calls[id].awaits = "linfo" /\ calls[id].absent ->
              \* the wrap of linfo is left, fileCache.mkDir is called
              /\ operationStack' = operationStack - 1
              /\ Enqueue("mkDir", SchedDir, Undefined, id)
              /\ calls' = [calls EXCEPT ![id] = FacadeCall("mkDir", "mkDir")]
              /\ UNCHANGED <<timers, commitTimeout, sinceCommit, quiet>>
         [] calls[id].op = "mkDir" /\ calls[id].awaits = "linfo" /\ ~calls[id].absent ->
              \* the wrap of linfo is left, the loop ends and the wrap of mkDir is left
              /\ WrapFinally(2)
              /\ calls' = [calls EXCEPT ![id] = NoFacadeCall]
         [] calls[id].op = "forEach" /\ calls[id].awaits = "linfo" ->
              \* "/" is a directory: fileCache.readDir
              /\ Enqueue("readDir", Root, Undefined, id)
              /\ calls' = [calls EXCEPT ![id] = FacadeCall("forEach", "readDir")]
              /\ UNCHANGED <<operationStack, timers, commitTimeout, sinceCommit, quiet>>
         [] calls[id].op = "forEach" /\ calls[id].awaits = "readDir" ->
              /\ calls' = [calls EXCEPT ![id] = NoFacadeCall]
              /\ UNCHANGED <<operationStack, timers, commitTimeout, sinceCommit, quiet, promiseChain, nextId>>
         [] calls[id].op = "rm" /\ calls[id].awaits = "linfo" /\ ~calls[id].failed /\ ~calls[id].absent
              /\ calls[id].fileType = "DIRECTORY" ->
              \* folder, not recursive, a directory: fileCache.readDir
              /\ Enqueue("readDir", SchedDir, Undefined, id)
              /\ calls' = [calls EXCEPT ![id] = FacadeCall("rm", "readDir")]
              /\ UNCHANGED <<operationStack, timers, commitTimeout, sinceCommit, quiet>>
         [] calls[id].op = "rm" /\ ~calls[id].failed
              /\ \/ calls[id].awaits = "linfo" /\ ~calls[id].absent /\ calls[id].fileType # "DIRECTORY"
                 \/ calls[id].awaits = "readDir" /\ calls[id].listed = 0 ->
              \* nothing was listed: fileCache.deleteFile
              /\ Enqueue("deleteFile", SchedDir, Undefined, id)
              /\ calls' = [calls EXCEPT ![id] = FacadeCall("rm", "deleteFile")]
              /\ UNCHANGED <<operationStack, timers, commitTimeout, sinceCommit, quiet>>
         [] OTHER ->
              /\ WrapFinally(1)
              /\ calls' = [calls EXCEPT ![id] = NoFacadeCall]
    /\ UNCHANGED <<backend, cache, locked, lastCommit, opCount, fsVars, written, Settings, stale, notified>>

SchedNext ==
  \/ callWriteFile
  \/ callReadFile
  \/ callMkDir
  \/ callForEach
  \/ callCommit
  \/ timerFires
  \/ tick
  \/ lockBackend
  \/ runTask
  \/ commitSkips
  \/ commitBulk
  \/ commitRelease
  \/ commitFinish
  \/ resume

Sched == SchedInit /\ [][SchedNext]_vars

(* The claims about the scheduling layer, checked under Sched. *)

\* the places in chain of the tasks that have started their body
Started(chain) == {i \in 1..Len(chain) : chain[i].pc # "start"}

\* the task of chain that takes this step: it starts, goes on or finishes
Stepping(chain, after) ==
  {i \in 1..Len(chain) : \A j \in 1..Len(after) : after[j].id = chain[i].id => after[j].pc # chain[i].pc}

\* a step in which the commit at place i walks the tree and calls backend.bulk
Bulks(chain, after, i) ==
  /\ chain[i].op = "commit" /\ chain[i].pc = "locked"
  /\ \E j \in 1..Len(after) : after[j].id = chain[i].id /\ after[j].pc = "bulk"

SerialInOrder ==
  /\ Cardinality(Started(promiseChain')) <= 1
  /\ \A i \in Stepping(promiseChain, promiseChain') :
       /\ \A j \in 1..Len(promiseChain) : promiseChain[j].id >= promiseChain[i].id
       /\ (Bulks(promiseChain, promiseChain', i) /\ written.valid) =>
              /\ lastCommit'.bulk = <<lastCommit'.payload>>
              /\ \E k \in 1..Len(lastCommit'.payload.filesToWrite) :
                   /\ lastCommit'.payload.filesToWrite[k].filePath = written.filePath
                   /\ lastCommit'.payload.filesToWrite[k].data = written.data
  /\ (cache' # cache \/ backend' # backend \/ locked' # locked) => Stepping(promiseChain, promiseChain') # {}

\* C22: the FileCache operations run one at a time in the order they were enqueued: at most
\* one task is inside its body, the task that takes a step is the one enqueued first among
\* those not finished, the cache, the backend and the mutex change only in a step of that
\* task, and a commit hands backend.bulk the bytes of the last writeFile that was enqueued
\* before it and succeeded.
C22_SerialInOrder == [][SerialInOrder]_vars

\* a commit calls backend.bulk with the bytes of a writeFile enqueued before it, while a
\* task enqueued after the commit waits
C22_CommitAfterWrite ==
  /\ promiseChain # <<>> /\ Running.op = "commit" /\ Running.pc = "bulk"
  /\ Len(promiseChain) > 1
  /\ written.valid
  /\ lastCommit.bulk # <<>> /\ Len(lastCommit.payload.filesToWrite) = 1
  /\ lastCommit.payload.filesToWrite[1].data = written.data

\* the places in chain of the commits that are between their start and the clearing of the root
CommitsInFlight(chain) == {i \in Started(chain) : chain[i].op = "commit"}

OneCommitInFlight ==
  /\ Cardinality(CommitsInFlight(promiseChain')) <= 1
  /\ CommitsInFlight(promiseChain) # {} =>
       /\ Started(promiseChain') \subseteq CommitsInFlight(promiseChain')
       /\ (cache' # cache \/ backend' # backend \/ lastCommit' # lastCommit) =>
            \E i \in CommitsInFlight(promiseChain) :
              /\ i \in Stepping(promiseChain, promiseChain')
              /\ cache' # cache => (promiseChain[i].pc = "released" /\ ~cache'[Root].live)

\* C23: at most one commit is in flight. However explicit commits, timer commits, staleness
\* commits and operations interleave, no two commits are between lockBackend and the
\* clearing of the root at once, and while one is there no other task is inside its body;
\* the tree, the backend and the record of backend.bulk change only in a step of that
\* commit, and the tree only when it clears the root.
C23_OneCommitInFlight == [][OneCommitInFlight]_vars

\* a commit has called backend.bulk and has not released the mutex, a second commit waits
C23_SecondCommitWaits ==
  /\ Len(promiseChain) > 1
  /\ Running.op = "commit" /\ Running.pc = "bulk" /\ lastCommit.bulk # <<>>
  /\ \E i \in 2..Len(promiseChain) : promiseChain[i].op = "commit"

\* a step in which the task at place i returns from lockBackend
Locks(chain, after, i) ==
  /\ chain[i].pc = "start"
  /\ \E j \in 1..Len(after) : after[j].id = chain[i].id /\ after[j].pc = "locked"

StaleIsAdvisory ==
  /\ \A i \in 1..Len(promiseChain) :
       Locks(promiseChain, promiseChain', i) =>
         /\ notified' = (IF stale' THEN Listeners ELSE <<>>)
         /\ cache' = cache /\ backend' = backend
  /\ (stale /\ cache' # cache) => notified = Listeners
  /\ (stale /\ promiseChain # <<>> /\ Running.op # "commit") =>
       \A q \in Paths : cache[q].live => cache'[q].live

\* C26: the stale-lock notification is advisory. When mutex.lock() reports stale, every
\* registered listener gets onPossibleUnknownChanges exactly once, in that step, before the
\* operation that took the lock changes the shadow tree; the step leaves the shadow tree and
\* the backend as they are and the operation goes on with the nodes it finds; when the lock
\* does not report stale no listener is called.
C26_StaleIsAdvisory == [][StaleIsAdvisory]_vars

\* an operation has re-acquired the mutex after a commit released it, the lock reported
\* stale and both listeners were told
C26_StaleAfterCommit ==
  /\ promiseChain # <<>> /\ Running.pc = "locked" /\ Running.op = "writeFile"
  /\ stale /\ notified = Listeners
  /\ backend[SchedFile].fileType = "FILE"

\* an operation has taken the mutex, the lock did not report stale and nobody was told
C26_FreshLock ==
  /\ promiseChain # <<>> /\ Running.pc = "locked"
  /\ ~stale /\ notified = <<>>

\* the commits of chain
Commits(chain) == {chain[i].id : i \in {j \in 1..Len(chain) : chain[j].op = "commit"}}

SchedulingDecision ==
  /\ (operationStack > 0 /\ operationStack' = 0) =>
       IF sinceCommit >= alwaysCommitCacheAfter
         THEN /\ Commits(promiseChain') = Commits(promiseChain) \cup {nextId}
              /\ promiseChain'[Len(promiseChain')].id = nextId
              /\ timers' = {} /\ commitTimeout' = 0
       ELSE IF cacheCommitDelay # Infinity
         THEN /\ Commits(promiseChain') = Commits(promiseChain)
              /\ timers' = {[id |-> commitTimeout', due |-> cacheCommitDelay]}
              /\ commitTimeout' # 0
       ELSE /\ Commits(promiseChain') = Commits(promiseChain)
            /\ timers' = {} /\ commitTimeout' = 0
  /\ (alwaysCommitCacheAfter = Infinity /\ cacheCommitDelay = Infinity) =>
       /\ timers' = {}
       /\ Commits(promiseChain') \subseteq Commits(promiseChain)
            \/ (opCount' = opCount + 1 /\ operationStack' = operationStack)

\* C27: the scheduling decision. Each time operationStack returns to zero: when the time
\* since the last commit is at least alwaysCommitCacheAfter a commit is enqueued at once and
\* no timer is armed; otherwise, when cacheCommitDelay is finite exactly one timer is armed,
\* for cacheCommitDelay, and no commit is enqueued, and when it is infinite neither happens.
\* With both settings infinite no timer is ever armed and only a call of commit() enqueues
\* a commit.
C27_SchedulingDecision == [][SchedulingDecision]_vars

\* the staleness trigger has enqueued a commit exactly when alwaysCommitCacheAfter had passed
C27_ImmediateCommit ==
  /\ alwaysCommitCacheAfter = 1 /\ cacheCommitDelay = Infinity
  /\ quiet = "committed" /\ operationStack = 0 /\ timers = {}
  /\ Commits(promiseChain) # {}

\* the idle timer is armed while the staleness trigger has not been reached
C27_TimerArmed ==
  /\ alwaysCommitCacheAfter = 1 /\ cacheCommitDelay = 1 /\ sinceCommit = 0
  /\ quiet = "armed" /\ operationStack = 0
  /\ timers = {[id |-> commitTimeout, due |-> 1]}

\* cacheCommitDelay = 0 and alwaysCommitCacheAfter = Infinity
CommitWhenQuiet == cacheCommitDelay = 0 /\ alwaysCommitCacheAfter = Infinity

OneCommitPerQuietInterval ==
  CommitWhenQuiet =>
    /\ (operationStack > 0 /\ operationStack' = 0) =>
         (quiet' = "armed" /\ timers' = {[id |-> commitTimeout', due |-> 0]} /\ commitTimeout' # 0)
    /\ (quiet = "armed" /\ quiet' = "armed") =>
         (timers' = timers /\ commitTimeout' = commitTimeout /\ Commits(promiseChain') \subseteq Commits(promiseChain))
    /\ (quiet = "armed" /\ quiet' \in {"committed", "ended"}) =>
         (Commits(promiseChain') = Commits(promiseChain) \cup {nextId} /\ timers' = {})
    /\ (quiet \in {"committed", "ended"} /\ operationStack' = 0) =>
         /\ timers' = {}
         /\ Commits(promiseChain') \subseteq Commits(promiseChain)
              \/ (opCount' = opCount + 1 /\ operationStack' = operationStack)
    /\ quiet' # "twice"

\* C28: with cacheCommitDelay = 0 and alwaysCommitCacheAfter = Infinity every quiet interval
\* brings exactly one commit. When operationStack returns to zero a timer of delay zero is
\* armed, the only one; it stays armed, and nothing enqueues a commit, until it fires or
\* commit() is called, which enqueues one commit and leaves no timer; after that, until
\* an operation starts, no timer is armed and only a call of commit() enqueues a commit.
C28_OneCommitPerQuietInterval == [][OneCommitPerQuietInterval]_vars

\* the timer of a quiet interval has fired and has enqueued its commit
C28_QuietIntervalCommitted ==
  /\ CommitWhenQuiet
  /\ quiet = "committed" /\ operationStack = 0 /\ timers = {}
  /\ Commits(promiseChain) # {}

\* every facade operation that was issued has completed
AllCompleted == \A n \in CallIds : calls[n].op = "none"

\* nothing is left to run: no call is in flight, no task is in the chain, no timer is armed.
\* From here only a call of the client goes on; the passing of time arms and enqueues nothing
Settled == AllCompleted /\ promiseChain = <<>> /\ timers = {}

\* a commit has run since the last operation touched the tree: nothing is pending and the
\* mutex is free
Flushed == ~locked /\ ~cache[Root].live

\* C29: eventual flush. With a finite cacheCommitDelay, when every facade operation that was
\* issued has completed and no other is issued, a commit runs in the end, the pending
\* changes are handed to the backend and the mutex is released: when nothing is left to
\* run, the commit has run and the mutex is free.
C29_EventualFlush == (cacheCommitDelay # Infinity /\ Settled) => Flushed

\* what is stranded is the mutex and the tree read, never a change: when nothing is left to
\* run the next commit would have nothing to hand to the backend
NoChangeIsStranded ==
  (cacheCommitDelay # Infinity /\ Settled) => NextPayload(backend, cache).payload = EmptyPayload

TimerDiscipline ==
  /\ Cardinality(timers') <= 1
  /\ timers' # {} => operationStack' = 0
  /\ operationStack' >= 0
  /\ operationStack' > operationStack => (timers' = {} /\ commitTimeout' = 0)
  /\ (opCount' = opCount + 1 /\ Commits(promiseChain') # Commits(promiseChain)) => (timers' = {} /\ commitTimeout' = 0)
  /\ (opCount' = opCount /\ Commits(promiseChain') # Commits(promiseChain) /\ timers' # timers) =>
       (operationStack = 0 /\ operationStack' = 0)

\* C39: timer discipline. At most one commit timer is armed, and only while operationStack
\* is zero; a wrapped operation that starts and a call of commit() leave no timer armed; a
\* timer enqueues its commit only while operationStack is zero; operationStack is never
\* negative.
C39_TimerDiscipline == [][TimerDiscipline]_vars

\* a timer is armed while a forEach, which is not wrapped, is in flight
C39_TimerArmedBesideForEach ==
  /\ Cardinality(timers) = 1 /\ operationStack = 0
  /\ \E n \in CallIds : calls[n].op = "forEach"

\* C34: a single acquisition per commit epoch. The cache calls mutex.lock() only when it
\* does not hold the mutex, so that between two commits there is at most one lock(), matched
\* by the release() of the next commit: a task returns from lockBackend only in a step that
\* starts without the mutex.
C34_SingleAcquisition ==
  [][(\E i \in 1..Len(promiseChain) : Locks(promiseChain, promiseChain', i)) => ~locked]_vars

(* Facade operations of several FileCache operations, called while others are in flight. *)

\* a path below SchedDir
SchedBelow == <<"a", "c">>

\* a backend that holds the empty directory /a
RaceBackend == [EmptyBackend EXCEPT ![<<>>].children = <<"a">>, ![SchedDir] = Node("DIRECTORY", 0, Undefined)]

RaceInit ==
  /\ SchedIdle
  /\ \E config \in SchedConfigs :
       /\ alwaysCommitCacheAfter = config.alwaysCommitCacheAfter
       /\ cacheCommitDelay = config.cacheCommitDelay
  /\ backend = RaceBackend
  /\ cache = [q \in Paths |-> NoCachedFile]
  /\ locked = FALSE
  /\ lastCommit = NoCommit
  /\ opCount = 0
  /\ pc = "idle"
  /\ pending = NoCall
  /\ linkStack = <<>>
  /\ hops = 0
  /\ lastCall = NoCall
  /\ lastResult = Resolved
  /\ written = NothingWritten
  /\ ref = PlainOf(backend)
  /\ refResult = PlainOutcome

\* NeatFS.rm(SchedDir, {folder: true})
callRm ==
  /\ NewCall(FacadeCall("rm", "linfo"))
  /\ WrapEnter(1)
  /\ Enqueue("linfo", SchedDir, Undefined, opCount + 1)
  /\ UNCHANGED <<backend, cache, locked, lastCommit, fsVars, written, sinceCommit, Settings, stale, notified>>

\* NeatFS.writeFile of a path below SchedDir
callWriteBelow ==
  /\ NewCall(FacadeCall("writeFile", "writeFile"))
  /\ WrapEnter(1)
  /\ Enqueue("writeFile", SchedBelow, "y", opCount + 1)
  /\ UNCHANGED <<backend, cache, locked, lastCommit, fsVars, written, sinceCommit, Settings, stale, notified>>

RaceNext ==
  \/ callRm
  \/ callWriteBelow
  \/ timerFires
  \/ tick
  \/ lockBackend
  \/ runTask
  \/ commitBulk
  \/ commitRelease
  \/ commitFinish
  \/ resume

Race == RaceInit /\ [][RaceNext]_vars

\* a step in which the deleteFile of a rm of SchedDir removes it
Removes ==
  /\ promiseChain # <<>> /\ Running.op = "deleteFile" /\ Running.pc = "locked"
  /\ ViewAt(backend, cache, SchedDir).fileType # Undefined
  /\ ViewAt(backend', cache', SchedDir).fileType = Undefined

\* C38: rm is atomic against concurrent calls. When other facade operations are issued
\* before rm(p, {folder: true}) has settled, the rm removes the directory p only when p has
\* no child at that moment.
C38_RmIsAtomic == [][Removes => ChildNames(View(backend, cache), SchedDir) = {}]_vars

(* The claims about the traversal, the mtime of the parent and the lazy fetches, checked under Spec. *)

\* the interior components of filePath: the prefixes between the root and filePath itself
Interior(filePath) == Prefixes(filePath) \ {Root, filePath}

\* the interior components of filePath that view does not show as a directory
NotTraversable(view, filePath) == {q \in Interior(filePath) : view[q].fileType # "DIRECTORY"}

TraversalError ==
  (pc = "idle" /\ pc' = "settled" /\ lastCall'.op = "linfo") =>
    LET Traversed(view, filePath) ==
          IF NotTraversable(view, filePath) # {}
            THEN LET q == CHOOSE q \in NotTraversable(view, filePath) :
                            \A r \in NotTraversable(view, filePath) : Len(q) <= Len(r)
                 IN /\ lastResult'.status = "error"
                    /\ lastResult'.err = FSError(IF view[q].fileType = Undefined THEN "ENOENT" ELSE "ENOTDIR", q)
          ELSE lastResult'.err.code \notin {"ENOENT", "ENOTDIR"}
    IN Traversed(View(backend, cache), lastCall'.filePath)

\* C33: the traversal error path. When an interior component of the path, at prefix q, does
\* not exist or is not a directory, getFile fails with ENOENT respectively ENOTDIR whose
\* filePath is exactly q; the walk tests neither the existence nor the type of the final
\* component. Stated of linfo, which is getFile and nothing more.
C33_TraversalError == [][TraversalError]_vars

\* the same with the filePath the code builds, q joined with the filename of q once more,
\* as long as the root is a directory
TraversalErrorPathDoubled ==
  [][(pc = "idle" /\ pc' = "settled" /\ lastCall'.op = "linfo" /\ (cache[Root].live => isDir(cache[Root]))) =>
       LET TraversedDoubled(view, filePath) ==
             IF NotTraversable(view, filePath) # {}
               THEN LET q == CHOOSE q \in NotTraversable(view, filePath) :
                               \A r \in NotTraversable(view, filePath) : Len(q) <= Len(r)
                    IN /\ lastResult'.status = "error"
                       /\ lastResult'.err = FSError(IF view[q].fileType = Undefined THEN "ENOENT" ELSE "ENOTDIR",
                                                    join(q, basename(q)))
             ELSE lastResult'.err.code \notin {"ENOENT", "ENOTDIR"}
       IN TraversedDoubled(View(backend, cache), lastCall'.filePath)]_vars

\* C35: parent mtime updates are flushed. Whenever mkDir, mkLnk, deleteFile or a writeFile
\* that creates the file changes the mtime of the parent directory, the metaDirty flag of the
\* parent is set, so that the parent is in metaUpdates at the next commit: the mtime of a
\* node that the backend holds never differs from the mtime the backend holds while the
\* metaDirty flag of the node is false.
C35_ParentMtimeFlushed ==
  \A q \in Paths :
    (cache[q].live /\ ~cache[q].metaDirty /\ backend[q].fileType # "NONE") => cache[q].mtime = backend[q].mtime

\* mkLnk, which sets the mtime of the parent through the setter, keeps the flag and the
\* mtime of the parent together
MkLnkFlagsParent ==
  [][(pc = "idle" /\ pc' = "settled" /\ lastCall'.op = "mkLnk" /\ lastResult'.status = "ok")
      => LET parent == dirname(lastCall'.filePath)
         IN cache'[parent].metaDirty /\ cache'[parent].mtime = lastCall'.now]_vars

LazyFetch ==
  \A q \in Paths :
    /\ cache'[q].readDirs <= 1 /\ cache'[q].readFiles <= 1
    /\ cache'[q].readDirs > cache[q].readDirs =>
         /\ cache'[q].oldType = "DIRECTORY" /\ cache'[q].newFileType \in {"DIRECTORY", "NONEXISTENT"}
         /\ cache[q].live => cache[q].newFileType = "DIRECTORY"
    /\ cache'[q].readFiles > cache[q].readFiles =>
         /\ cache'[q].oldType = "FILE" /\ cache'[q].newFileType = "FILE"
         /\ cache[q].live => cache[q].newFileType = "FILE"
    /\ (cache'[q].live /\ cache'[q].newFileType = "FILE_DIRTY") => cache'[q].data # Undefined

\* C37: a lazy fetch happens at most once. Between two commits backend.readDir is called at
\* most once for a directory path and backend.readFile at most once for a file path; they
\* are called only for a directory, or a file, that the backend holds and the cache has not
\* created, re-created or written (a rm may remove the directory it has just listed); every
\* file the commit writes has its bytes in the cache,
\* so that commit reads nothing from the backend.
C37_LazyFetchOnce == [][LazyFetch]_vars

\* a directory of the backend was listed, removed, made again and listed again: one fetch
C37_RemadeNotFetched ==
  \E q \in Paths :
    /\ cache[q].live /\ cache[q].readDirs = 1
    /\ cache[q].oldType = "DIRECTORY" /\ cache[q].newFileType = "DIRECTORY_NEW"
    /\ pc = "settled" /\ lastCall.op = "readDir" /\ lastCall.filePath = q /\ lastResult.status = "ok"

(* The listeners of NeatFS. Every event goes through the same loop over the registered
   listeners; ListenNext lets a listener's callback throw. *)

\* NeatFS, the FSCallback it hands to FileCache: `for (const fun of this.functions) if (fun.onX)
\* fun.onX(...)`. thrower is the position of the listener whose callback throws, 0 when none
\* does: the loop ends there and the exception leaves it
NeatFS_dispatch(listeners, thrower) ==
  [delivered |-> IF thrower = 0 THEN listeners ELSE SubSeq(listeners, 1, thrower),
   threw |-> thrower # 0]

\* the rest of a task other than commit when the callback of the at-th event it fires throws in
\* the listener at position thrower (at = 0: no callback throws). FileCache.writeFile fires
\* onFileCreated before cachedFile.writeFile, the other operations fire after the change
runTaskThrowing ==
  /\ promiseChain # <<>>
  /\ Running.pc = "locked"
  /\ Running.op # "commit"
  /\ LET task == Running
         Ran(r) ==
           \E at \in 0..Len(r.result.fired), thrower \in 1..Len(Listeners) :
             LET sent == NeatFS_dispatch(Listeners, IF at = 0 THEN 0 ELSE thrower)
                 unwritten == /\ sent.threw /\ task.op = "writeFile"
                              /\ r.result.fired[at].callback = "onFileCreated"
                 done == r.result.status = "ok" /\ ~unwritten
             IN /\ (at = 0 => thrower = 1)
                /\ cache' = IF unwritten THEN FileCache_resolveSymlink(backend, cache, task.filePath).cache
                            ELSE r.cache
                /\ written' = IF task.op = "writeFile" /\ done
                                 THEN [valid |-> TRUE, filePath |-> task.filePath, data |-> task.data]
                               ELSE written
                /\ calls' = [calls EXCEPT ![task.call].settled = TRUE,
                                          ![task.call].absent = (task.op = "linfo" /\ r.result.status = "ok"
                                                                   /\ r.result.entry.fileType = Undefined),
                                          ![task.call].failed = (r.result.status = "error" \/ sent.threw),
                                          ![task.call].fileType = IF task.op = "linfo" /\ r.result.status = "ok"
                                                                    THEN r.result.entry.fileType ELSE Undefined,
                                          ![task.call].listed = Len(r.result.names)]
                /\ notified' = IF r.result.fired = <<>> THEN <<>> ELSE sent.delivered
     IN Ran(FileCache_run(backend, cache, task))
  /\ promiseChain' = Tail(promiseChain)
  /\ stale' = FALSE
  /\ UNCHANGED <<backend, locked, lastCommit, opCount, fsVars, operationStack, commitTimeout, timers, sinceCommit,
                 Settings, nextId, quiet>>

ListenNext ==
  \/ callWriteFile
  \/ callMkDir
  \/ timerFires
  \/ tick
  \/ lockBackend
  \/ runTaskThrowing
  \/ commitBulk
  \/ commitRelease
  \/ commitFinish
  \/ resume

Listen == SchedInit /\ [][ListenNext]_vars

\* a step in which a task's body succeeds and fires an event leaves the facade call unfailed,
\* the shadow tree with the body's effect and every listener with the event
ListenerIsolation ==
  (promiseChain # <<>> /\ Running.pc = "locked" /\ Running.op # "commit" /\ calls'[Running.call].settled)
    => LET Isolated(r) ==
             (r.result.status = "ok" /\ r.result.fired # <<>>)
               => /\ ~calls'[Running.call].failed
                  /\ cache' = r.cache
                  /\ notified' = Listeners
       IN Isolated(FileCache_run(backend, cache, Running))

\* C36: a listener that throws from a callback fails neither the operation that fired the event
\* nor the delivery to the remaining listeners, and the tree holds the operation's effect
C36_ListenerIsolation == [][ListenerIsolation]_vars

(***************************************************************************)
(* The path algebra (Path). A string is the sequence of its characters,    *)
(* each a string of length one: "/a" is <<"/", "a">>.                      *)
(***************************************************************************)

\* the longest path string a run draws
MaxLen == 4

\* the characters path strings are made of
Chars == {"/", ".", "a", "b"}

PathStrings == UNION {[1..n -> Chars] : n \in 0..MaxLen}

\* String.prototype.endsWith('/')
endsWithSlash(string) == string # <<>> /\ string[Len(string)] = "/"

\* String.prototype.split('/')
RECURSIVE String_split(_)
String_split(string) ==
  IF string = <<>> THEN << <<>> >>
  ELSE IF Head(string) = "/" THEN << <<>> >> \o String_split(Tail(string))
  ELSE LET Prepend(rest) == << <<Head(string)>> \o Head(rest) >> \o Tail(rest)
       IN Prepend(String_split(Tail(string)))

\* Array.prototype.join('/')
RECURSIVE Array_join(_)
Array_join(parts) ==
  IF parts = <<>> THEN <<>>
  ELSE IF Len(parts) = 1 THEN parts[1]
  ELSE parts[1] \o <<"/">> \o Array_join(Tail(parts))

\* Array.prototype.filter(el => el !== '')
NotEmpty(parts) == SelectSeq(parts, LAMBDA el : el # <<>>)

\* Path._join, its loop: a slash that follows a slash is skipped
RECURSIVE Path__join_loop(_, _)
Path__join_loop(pathDuplicateSlash, lastSlash) ==
  IF pathDuplicateSlash = <<>> THEN <<>>
  ELSE IF Head(pathDuplicateSlash) = "/"
    THEN IF lastSlash THEN Path__join_loop(Tail(pathDuplicateSlash), TRUE)
         ELSE <<"/">> \o Path__join_loop(Tail(pathDuplicateSlash), TRUE)
  ELSE <<Head(pathDuplicateSlash)>> \o Path__join_loop(Tail(pathDuplicateSlash), FALSE)

\* Path._join
Path__join(parts) ==
  LET Joined(path) == IF path = <<>> THEN <<".">> ELSE path
  IN Joined(Path__join_loop(Array_join(NotEmpty(parts)), FALSE))

\* Path.isAbsolute
Path_isAbsolute(path) == path # <<>> /\ Head(path) = "/"

\* a split that puts no '.' in front of a relative path
Path_split_bare(path) ==
  LET parts == NotEmpty(String_split(path))
  IN NotEmpty(IF Path_isAbsolute(path) THEN << <<"/">> >> \o parts ELSE parts)

\* Path.split
Path_split(path) ==
  LET parts == NotEmpty(String_split(path))
  IN NotEmpty(IF Path_isAbsolute(path) THEN << <<"/">> >> \o parts
              ELSE IF parts = <<>> \/ parts[1] # <<".">> THEN << <<".">> >> \o parts
              ELSE parts)

\* Path.normalize, the callback of its reduce over parts, from ancestors on; parent is <<>> for
\* undefined, which no part is
RECURSIVE Path_normalize_reduce(_, _, _)
Path_normalize_reduce(ancestors, parts, absolute) ==
  IF parts = <<>> THEN ancestors
  ELSE LET current == Head(parts)
           parent == IF ancestors = <<>> THEN <<>> ELSE ancestors[Len(ancestors)]
       IN Path_normalize_reduce(
            IF current = <<".">> THEN ancestors
            ELSE IF current = <<".", ".">>
              THEN IF parent = <<".", ".">> \/ (parent = <<>> /\ ~absolute)
                     THEN Append(ancestors, <<".", ".">>)
                   ELSE SubSeq(ancestors, 1, Len(ancestors) - 1)
            ELSE Append(ancestors, current),
            Tail(parts), absolute)

\* Path.normalize
Path_normalize(path) ==
  IF path = <<>> THEN <<".">>
  ELSE LET absolute == Path_isAbsolute(path)
           parts == Path_normalize_reduce(<<>>, Tail(Path_split(path)), absolute)
           newPath == Path__join(IF absolute THEN << <<"/">> >> \o parts ELSE parts)
       IN IF endsWithSlash(path) /\ ~endsWithSlash(newPath) THEN newPath \o <<"/">> ELSE newPath

\* Path.join
Path_join(parts) == Path_normalize(Path__join(parts))

\* Path.resolve
Path_resolve(parts) ==
  IF parts = <<>> THEN <<"/">>
  ELSE LET absolutes == {index \in 1..Len(parts) : Path_isAbsolute(parts[index])}
           from == IF absolutes = {} THEN 1
                   ELSE CHOOSE index \in absolutes : \A other \in absolutes : other <= index
           path == Path_join(SubSeq(parts, from, Len(parts)))
       IN IF path # <<"/">> /\ endsWithSlash(path) THEN SubSeq(path, 1, Len(path) - 1) ELSE path

\* Path._relative; the positions it and lastCommonSep count from 0 as in the source
Path__relative(from, to) ==
  IF from = to THEN <<>>
  ELSE LET length == IF Len(from) < Len(to) THEN Len(from) ELSE Len(to)
           differ == {it \in 0..(length - 1) : from[it + 1] # to[it + 1]}
           stop == IF differ = {} THEN length
                   ELSE CHOOSE it \in differ : \A other \in differ : it <= other
           seps == {it \in 0..(stop - 1) : from[it + 1] = "/"}
           lastCommonSep == IF stop = length THEN length
                            ELSE IF seps = {} THEN -1
                            ELSE CHOOSE it \in seps : \A other \in seps : other <= it
           ups == Cardinality({it \in (lastCommonSep + 1)..Len(from) :
                                 it = Len(from) \/ from[it + 1] = "/"})
           RECURSIVE Up(_)
           Up(n) == IF n = 0 THEN <<>> ELSE <<".", ".", "/">> \o Up(n - 1)
           out == Up(ups) \o SubSeq(to, lastCommonSep + 2, Len(to))
       IN IF endsWithSlash(out) THEN SubSeq(out, 1, Len(out) - 1) ELSE out

\* Path.relative
Path_relative(from, to) == Path__relative(Path_resolve(<<from>>), Path_resolve(<<to>>))

\* the calls of Path a run draws: normalize of any string, relative of two absolute strings
PathCalls ==
  {[op |-> "normalize", path |-> path] : path \in PathStrings}
    \cup {[op |-> "relative", from |-> from, to |-> to] :
            from \in {s \in PathStrings : Path_isAbsolute(s)}, to \in {s \in PathStrings : Path_isAbsolute(s)}}

\* nothing but the call drawn varies: Path keeps no state and touches neither cache nor backend
PathInit ==
  /\ SchedIdle
  /\ alwaysCommitCacheAfter = 5000
  /\ cacheCommitDelay = 500
  /\ backend = RaceBackend
  /\ cache = [q \in Paths |-> NoCachedFile]
  /\ locked = FALSE
  /\ pc = "idle"
  /\ pending = NoCall
  /\ linkStack = <<>>
  /\ hops = 0
  /\ lastCall \in PathCalls
  /\ lastResult = <<>>
  /\ lastCommit = NoCommit
  /\ written = NothingWritten
  /\ ref = PlainOf(backend)
  /\ refResult = PlainOutcome
  /\ opCount = 0

\* Path.normalize(path)
normalize ==
  /\ pc = "idle"
  /\ lastCall.op = "normalize"
  /\ lastResult' = Path_normalize(lastCall.path)
  /\ pc' = "settled"
  /\ UNCHANGED <<backend, cache, locked, lastCommit, opCount, written, pending, linkStack, hops, lastCall, ref,
                 refResult, schedVars>>

\* Path.relative(from, to)
relative ==
  /\ pc = "idle"
  /\ lastCall.op = "relative"
  /\ lastResult' = Path_relative(lastCall.from, lastCall.to)
  /\ pc' = "settled"
  /\ UNCHANGED <<backend, cache, locked, lastCommit, opCount, written, pending, linkStack, hops, lastCall, ref,
                 refResult, schedVars>>

PathNext ==
  \/ normalize
  \/ relative

PathSpec == PathInit /\ [][PathNext]_vars

\* normalize has returned lastResult for lastCall.path
Normalized == pc = "settled" /\ lastCall.op = "normalize"

\* C31: normalize is idempotent, normalize(normalize(p)) = normalize(p) for every path string p,
\* and the normalized form of an absolute p is absolute
C31_NormalizeIdempotent ==
  Normalized
    => /\ Path_normalize(lastResult) = lastResult
       /\ Path_isAbsolute(lastCall.path) => Path_isAbsolute(lastResult)

\* normalize has folded '..' and a doubled slash out of an absolute path and kept it absolute, with
\* the trailing slash of the input
C31_FoldedAbsolute ==
  /\ Normalized
  /\ \E n \in 1..(Len(lastCall.path) - 1) : lastCall.path[n] = "." /\ lastCall.path[n + 1] = "."
  /\ Path_isAbsolute(lastCall.path) /\ endsWithSlash(lastCall.path)
  /\ lastResult = <<"/">>

\* relative has returned lastResult for lastCall.from and lastCall.to
Related == pc = "settled" /\ lastCall.op = "relative"

\* C32: for all absolute from and to, normalize(join(from, relative(from, to))) = to
C32_RelativeRoundTrip ==
  Related => Path_normalize(Path_join(<<lastCall.from, lastResult>>)) = lastCall.to

\* the same where from and to are what resolve makes of them already
RelativeRoundTripResolved ==
  (Related /\ Path_resolve(<<lastCall.from>>) = lastCall.from /\ Path_resolve(<<lastCall.to>>) = lastCall.to)
    => Path_normalize(Path_join(<<lastCall.from, lastResult>>)) = lastCall.to
====
